---- MODULE Spec2Model ----
(***************************************************************************)
(* Ledger model of the perpetual-futures exchange core (perp-dex).         *)
(*                                                                         *)
(* One action per operation the services export (admin, market, wallet,    *)
(* oracle, trading, executor), plus the two engine operations that no      *)
(* service calls (RiskModule::accrue_pool and                              *)
(* PositionModule::liquidate_position) and the passage of block time.      *)
(*                                                                         *)
(* Conventions.                                                            *)
(*  - Amounts are u128 in the program.  The inputs below keep every        *)
(*    intermediate product far below 2^128, so saturating_add and          *)
(*    saturating_mul never saturate and are written + and *;               *)
(*    saturating_sub is SatSub.  Signed division truncates toward zero     *)
(*    as in Rust (TDiv).                                                   *)
(*  - A HashMap is a function whose DOMAIN is the set of stored keys.      *)
(*    The balances map is read with unwrap_or(0) everywhere, so an absent  *)
(*    entry and a zero entry are the same value here.                      *)
(*  - The RefCell borrow discipline of PerpetualDEXState::get / get_mut    *)
(*    is not part of this ledger model: every handler is modelled by the   *)
(*    reads, checks and writes it performs, in program order.              *)
(*  - res records the last call: operation, result, caller and the keys    *)
(*    and arguments it was about.                                          *)
(***************************************************************************)
EXTENDS Integers, Sequences, FiniteSets, TLC

\* ------------------------------------------------------------------------
\* Program constants
\* ------------------------------------------------------------------------
USD_SCALE == 1000000
BPS == 10000
SECONDS_PER_YEAR == 31536000
SECONDS_PER_HOUR == 3600
MAX_FUNDING_BPS_PER_HOUR == 10
DEFAULT_MAX_AGE == 60

\* ------------------------------------------------------------------------
\* Bounds of the model
\* ------------------------------------------------------------------------
MaxOrders == 1          \* request keys the model hands out
MaxTicks == 1           \* block-time steps
MaxBalance == 100       \* deposits stop above this wallet balance
MaxLiquidity == 1000    \* liquidity is added while the pool holds less than this
MaxCalls == 3           \* position calls that write to the ledger
MaxQuotes == 1          \* quotes asked of the pricing module

\* ------------------------------------------------------------------------
\* Input sets
\* ------------------------------------------------------------------------
TickSeconds == 24 * SECONDS_PER_HOUR
Admin == "admin"
Actors == {"admin", "alice", "bob", "lp"}
Traders == {"alice"}
Callers == {"alice", "bob"}
LPs == {"lp"}

MarketId == "BTC-USD"
IndexToken == "BTC"
LongToken == "BTC"
ShortToken == "USDC"
CollateralToken == "USDC"

NoKey == <<>>
PositionKeys == {<<a, l>> : a \in Traders, l \in BOOLEAN}
LongKeys == {<<a, TRUE>> : a \in Traders}

OrderTypes == {"MarketIncrease", "LimitIncrease", "MarketDecrease",
               "LimitDecrease", "StopLossDecrease", "MarketSwap"}
IncreaseTypes == {"MarketIncrease", "LimitIncrease"}
DecreaseTypes == {"MarketDecrease", "LimitDecrease", "StopLossDecrease"}
LimitTypes == {"LimitIncrease", "LimitDecrease", "StopLossDecrease"}

IndexPrices == {90, 100, 110}
PositionPrices == {90, 100}
\* an index price before and after a rally that outgrows the pool
RallyPrices == {90, 400}
TokenPrice == USD_SCALE
LiquidityInputs == {1000}
ShareInputs == {1500}
MinOutInputs == {0, 5000}
DepositInputs == {100}
\* deposits and share amounts of the liquidity scenarios, and the accounts that
\* provide liquidity there
PoolTokenInputs == {0, 250, 500}
BurnInputs == {250, 500}
LiquidityProviders == {"lp", "bob"}
LiquidationFeeInputs == {500}
\* index prices in micro-USD (10 and 20 USD) for positions of a few micro-USD
DustPrices == {10000000, 20000000}

BaseConfig ==
    [ pi_factor_positive |-> 100, pi_factor_negative |-> 200, pi_exponent |-> 2,
      funding_factor |-> 5000, funding_exponent |-> 1,
      borrowing_factor |-> 20000, borrowing_exponent |-> 1,
      max_leverage |-> 10, liquidation_threshold_bps |-> 8000,
      reserve_factor_bps |-> 10000,
      max_long_oi |-> 2000, max_short_oi |-> 2000 ]
TightConfig == [BaseConfig EXCEPT !.max_long_oi = 500, !.max_short_oi = 500]
Configs == {BaseConfig, TightConfig}

\* the fee every order offers to the account that executes it
ExecutionFee == 10
Params(typ, is_long, size, coll, trigger, acceptable) ==
    [ market |-> MarketId, order_type |-> typ, is_long |-> is_long,
      size_delta_usd |-> size, collateral_delta_amount |-> coll,
      trigger_price |-> trigger, acceptable_price |-> acceptable,
      execution_fee |-> ExecutionFee ]

\* market orders: 10x and just above 10x on 100 of collateral, full and
\* partial closes with and without collateral withdrawn
MarketOrderInputs ==
    { Params("MarketIncrease", TRUE, s, 100, 100, 100) : s \in {1000, 1001} }
    \cup { Params("MarketDecrease", TRUE, 1000, c, 100, 90) : c \in {0, 100} }
    \cup { Params("MarketDecrease", TRUE, 500, 0, 100, 90) }
\* limit and stop orders, trigger 100 against mids of 90, 100 and 110
LimitOrderInputs ==
    { Params(t, l, 1000, 100, 100, 100) : t \in LimitTypes, l \in BOOLEAN }
\* positions of 10 micro-USD at 10x, and closes of half of one that withdraw
\* all of its collateral
DustOrderInputs ==
    { Params("MarketIncrease", l, 10, 1, 20000000, 20000000) : l \in BOOLEAN }
    \cup { Params("MarketDecrease", l, 5, 1, 20000000, 20000000) : l \in BOOLEAN }
\* funding that reaches whole USD on a position of 500 within a day
SteepConfig == [BaseConfig EXCEPT !.funding_factor = 24000]
\* a long and a smaller short, and closes of half of the long that withdraw
\* none or all of its collateral
FundingOrderInputs ==
    { Params("MarketIncrease", TRUE, 1000, 100, 100, 100),
      Params("MarketIncrease", FALSE, 500, 100, 100, 90),
      Params("MarketDecrease", TRUE, 500, 0, 100, 90),
      Params("MarketDecrease", TRUE, 500, 100, 100, 90) }
\* open interest of a side, sizes of a quoted trade, price-impact settings
\* (those of the module's tests, and the highest exponent) and oracle prices
\* with and without a spread
OiInputs == {0, 1000, 3000, 100000000, 300000000}
QuoteSizes == {0, 1000, 2000, 3500, 200000000}
ImpactConfigs ==
    { BaseConfig,
      [BaseConfig EXCEPT !.pi_factor_positive = 10000, !.pi_factor_negative = 10000,
                         !.pi_exponent = 3],
      [BaseConfig EXCEPT !.pi_exponent = 8],
      [BaseConfig EXCEPT !.pi_factor_positive = 5000000, !.pi_factor_negative = 5000000,
                         !.pi_exponent = 8] }
\* factors by which a quoted trade and its market are scaled up, and the
\* largest scaled open interest plus size
ScaleFactors == {2, 1000, 50000}
MaxScaledTotal == 500000000
SpreadPrices ==
    { [min |-> 100, max |-> 100], [min |-> 90, max |-> 110], [min |-> 1000, max |-> 1300] }
\* orders that validation turns down
InvalidOrderInputs ==
    { Params("MarketIncrease", TRUE, 0, 100, 100, 100),
      Params("MarketIncrease", TRUE, 1000, 0, 100, 100),
      Params("MarketDecrease", TRUE, 1000, 0, 0, 100),
      Params("LimitIncrease", TRUE, 1000, 100, 100, 0),
      Params("MarketSwap", TRUE, 1000, 100, 100, 100) }
OrderInputs == MarketOrderInputs \cup LimitOrderInputs \cup InvalidOrderInputs
\* one order per validation rule, a market order that only lacks a trigger
\* price, and a valid one
ValidationOrderInputs ==
    InvalidOrderInputs
    \cup { Params(t, TRUE, 1000, 100, 0, 100) : t \in LimitTypes }
    \cup { Params("LimitIncrease", TRUE, 1000, 0, 100, 100),
           Params("MarketIncrease", TRUE, 1000, 100, 100, 0),
           Params("MarketIncrease", TRUE, 1000, 100, 0, 100),
           Params("MarketIncrease", TRUE, 1000, 100, 100, 100) }

\* Option<u128> arguments: -1 stands for None
UpdateInputs ==
    { [size_delta_usd |-> 0, trigger_price |-> -1, acceptable_price |-> -1],
      [size_delta_usd |-> -1, trigger_price |-> 110, acceptable_price |-> 110] }

\* ------------------------------------------------------------------------
\* Arithmetic helpers
\* ------------------------------------------------------------------------
SatSub(a, b) == IF a > b THEN a - b ELSE 0
Min(a, b) == IF a < b THEN a ELSE b
Max(a, b) == IF a > b THEN a ELSE b
Abs(a) == IF a < 0 THEN -a ELSE a
\* Rust's `/` on i128: truncation toward zero (b > 0)
TDiv(a, b) == IF a >= 0 THEN a \div b ELSE -((-a) \div b)
RECURSIVE QuotRem(_, _, _)
\* <<quotient, remainder>> of a * b by c for 0 <= b < c, by halving a, so
\* that no intermediate exceeds 3 * c
QuotRem(a, b, c) ==
    IF a = 0 THEN <<0, 0>>
    ELSE LET h == QuotRem(a \div 2, b, c)
             t == 2 * h[2] + (a % 2) * b
         IN  <<2 * h[1] + t \div c, t % c>>
\* floor(a * b / c) for a, b >= 0, c > 0: what `a.saturating_mul(b) / c`
\* returns below saturation, evaluated without forming a * b
MulDiv(a, b, c) == a * (b \div c) + QuotRem(a, b % c, c)[1]

\* 128-bit arithmetic of pricing.rs: a magnitude is a sequence of Wide limbs
\* of 8 bits, least significant first; a signed value is a sign and a magnitude
Wide == 24
I128Limbs == 16
ToLimbs(x) == [i \in 1..Wide |-> IF i <= 4 THEN (x \div (256 ^ (i - 1))) % 256 ELSE 0]
FitsInt(a) == a[4] < 128 /\ \A i \in 5..Wide : a[i] = 0
ToInt(a) == a[1] + 256 * a[2] + 65536 * a[3] + 16777216 * a[4]
RECURSIVE MulSmallFrom(_, _, _, _)
MulSmallFrom(a, m, i, carry) ==
    IF i > Wide THEN <<>>
    ELSE <<(a[i] * m + carry) % 256>> \o MulSmallFrom(a, m, i + 1, (a[i] * m + carry) \div 256)
\* a * m for 0 <= m < 2^23
BigMulSmall(a, m) == MulSmallFrom(a, m, 1, 0)
RECURSIVE AddFrom(_, _, _, _)
AddFrom(a, b, i, carry) ==
    IF i > Wide THEN <<>>
    ELSE <<(a[i] + b[i] + carry) % 256>> \o AddFrom(a, b, i + 1, (a[i] + b[i] + carry) \div 256)
BigAdd(a, b) == AddFrom(a, b, 1, 0)
RECURSIVE SubFrom(_, _, _, _)
SubFrom(a, b, i, borrow) ==
    IF i > Wide THEN <<>>
    ELSE <<(a[i] - b[i] - borrow) % 256>>
            \o SubFrom(a, b, i + 1, IF a[i] - b[i] - borrow < 0 THEN 1 ELSE 0)
\* a - b for a >= b
BigSub(a, b) == SubFrom(a, b, 1, 0)
RECURSIVE GeqFrom(_, _, _)
GeqFrom(a, b, i) ==
    IF i = 0 THEN TRUE ELSE IF a[i] # b[i] THEN a[i] > b[i] ELSE GeqFrom(a, b, i - 1)
BigGeq(a, b) == GeqFrom(a, b, Wide)
RECURSIVE DivSmallFrom(_, _, _, _)
DivSmallFrom(a, m, i, rem) ==
    IF i = 0 THEN <<>>
    ELSE DivSmallFrom(a, m, i - 1, (rem * 256 + a[i]) % m) \o <<(rem * 256 + a[i]) \div m>>
\* floor(a / m) for 0 < m < 2^23
BigDivSmall(a, m) == DivSmallFrom(a, m, Wide, 0)
\* a * x for 0 <= x < 2^31: by the low and the high 16 bits of x
BigMul(a, x) ==
    BigAdd(BigMulSmall(a, x % 65536),
           [i \in 1..Wide |-> IF i <= 2 THEN 0 ELSE BigMulSmall(a, x \div 65536)[i - 2]])
TwoTo127 == [i \in 1..Wide |-> IF i = I128Limbs THEN 128 ELSE 0]
TwoTo128 == [i \in 1..Wide |-> IF i = I128Limbs + 1 THEN 1 ELSE 0]
\* the signed value is outside i128
OutsideI128(neg, mag) == IF neg THEN ~BigGeq(TwoTo127, mag) ELSE BigGeq(mag, TwoTo127)
\* the low 128 bits of a magnitude
Low128(mag) == [i \in 1..Wide |-> IF i <= I128Limbs THEN mag[i] ELSE 0]
\* two's-complement wrap of the signed value to i128, as <<sign, magnitude>>
WrapI128(neg, low) ==
    IF \A i \in 1..Wide : low[i] = 0 THEN <<FALSE, low>>
    ELSE IF neg
    THEN IF BigGeq(TwoTo127, low) THEN <<TRUE, low>> ELSE <<FALSE, BigSub(TwoTo128, low)>>
    ELSE IF BigGeq(low, TwoTo127) THEN <<TRUE, BigSub(TwoTo128, low)>> ELSE <<FALSE, low>>

\* ------------------------------------------------------------------------
\* State
\* ------------------------------------------------------------------------
VARIABLES
    markets,          \* market id -> Market
    market_configs,   \* market id -> MarketConfig
    pool_amounts,     \* market id -> PoolAmounts
    market_tokens,    \* market id -> MarketTokenInfo
    positions,        \* position key -> Position
    orders,           \* request key -> Order
    next_request_id,
    balances,         \* account -> Usd
    prices,           \* oracle: token -> Price
    timestamps,       \* oracle: token -> u64
    keepers,
    liquidators,
    now,              \* exec::block_timestamp()
    calls,            \* position calls that wrote to the ledger, and quotes (bounds the model)
    flow,             \* per position key: USD credited minus USD debited by successful position calls
    res               \* the last call

vars == <<markets, market_configs, pool_amounts, market_tokens, positions, orders,
          next_request_id, balances, prices, timestamps, keepers, liquidators,
          now, calls, flow, res>>

\* The ledger of the atomicity property
ledger == <<markets, market_configs, pool_amounts, market_tokens, positions, orders,
            next_request_id, balances>>

DefaultPool ==
    [ liquidity_usd |-> 0, claimable_fee_usd_long |-> 0, claimable_fee_usd_short |-> 0,
      long_oi_usd |-> 0, short_oi_usd |-> 0, position_impact_pool_usd |-> 0,
      total_borrowing_fees_usd |-> 0, last_funding_update |-> 0,
      accumulated_funding_long_per_usd |-> 0, accumulated_funding_short_per_usd |-> 0 ]

DefaultMarketTokenInfo == [ total_supply |-> 0, balances |-> <<>> ]

EmptyMap == <<>>
Put(m, k, v) == [x \in (DOMAIN m) \cup {k} |-> IF x = k THEN v ELSE m[x]]
Remove(m, k) == [x \in (DOMAIN m) \ {k} |-> m[x]]
Has(m, k) == k \in DOMAIN m

Res(op, err, who, pk, ok, typ) ==
    [op |-> op, err |-> err, who |-> who, pk |-> pk, ok |-> ok, typ |-> typ]
SimpleRes(op, err, who) == Res(op, err, who, NoKey, 0, "none")

Init ==
    /\ markets = EmptyMap
    /\ market_configs = EmptyMap
    /\ pool_amounts = EmptyMap
    /\ market_tokens = EmptyMap
    /\ positions = EmptyMap
    /\ orders = EmptyMap
    /\ next_request_id = 1
    /\ balances = [a \in Actors |-> 0]
    /\ prices = EmptyMap
    /\ timestamps = EmptyMap
    /\ keepers = {}
    /\ liquidators = {}
    /\ now = 0
    /\ calls = 0
    /\ flow = [k \in PositionKeys |-> 0]
    /\ res = SimpleRes("init", "Ok", Admin)

\* ------------------------------------------------------------------------
\* Oracle reads (modules/oracle.rs)
\* ------------------------------------------------------------------------
HasPrice(token) == Has(prices, token)
mid(token) == (prices[token].min + prices[token].max) \div 2
spread(token) == SatSub(prices[token].max, prices[token].min)
IsStale(ts) == SatSub(now, ts) > DEFAULT_MAX_AGE

\* ------------------------------------------------------------------------
\* RiskModule (modules/risk.rs)
\*
\* An operator that uses a computed value more than once receives it as an
\* argument from the step before it, so each step of a function is one
\* operator, in program order.
\* ------------------------------------------------------------------------
RECURSIVE PowBps(_, _, _)
\* the loop `for _ in 1..exp { base = base * ratio / 10_000 }`
PowBps(base, ratio, n) ==
    IF n <= 1 THEN base ELSE PowBps((base * ratio) \div BPS, ratio, n - 1)

\* rate_bps with its sign, from the imbalance ratio
SignedRateBps(imbalance, ratio_abs, cfg) ==
    IF imbalance > 0
    THEN (PowBps(ratio_abs, ratio_abs, Max(cfg.funding_exponent, 1)) * cfg.funding_factor) \div BPS
    ELSE IF imbalance < 0
    THEN -((PowBps(ratio_abs, ratio_abs, Max(cfg.funding_exponent, 1)) * cfg.funding_factor)
             \div BPS)
    ELSE 0

\* annualised, capped at +-10 bps per hour, in microUSD per USD
CappedRateMicro(rate_bps, dt) ==
    Min(Max(TDiv(rate_bps * dt, SECONDS_PER_YEAR),
            -((MAX_FUNDING_BPS_PER_HOUR * dt) \div SECONDS_PER_HOUR)),
        (MAX_FUNDING_BPS_PER_HOUR * dt) \div SECONDS_PER_HOUR) * 100

funding_rate_micro(pool, cfg, dt) ==
    IF pool.long_oi_usd + pool.short_oi_usd = 0 THEN 0
    ELSE CappedRateMicro(
            SignedRateBps(pool.long_oi_usd - pool.short_oi_usd,
                          Abs(TDiv((pool.long_oi_usd - pool.short_oi_usd) * BPS,
                                   pool.long_oi_usd + pool.short_oi_usd)),
                          cfg),
            dt)

\* risk.rs reads pool.long_liquidity_usd / pool.short_liquidity_usd; PoolAmounts
\* (types.rs) declares one liquidity field, liquidity_usd, shared by both sides.
SideLiquidity(pool, is_long) == pool.liquidity_usd

\* APR in bps at a utilisation, capped at 100%
BorrowingRateBps(util_bps, cfg) ==
    Min(MulDiv(cfg.borrowing_factor,
               PowBps(util_bps, util_bps, Max(cfg.borrowing_exponent, 1)), BPS),
        BPS)

\* x * dt / (year * 10_000) for x = rate * size: the quotient by 10_000 and
\* then by the year, which is the same floor, in 32-bit steps
BorrowingFeeOver(x, dt) ==
    ((x \div BPS) * dt + MulDiv(x % BPS, dt, BPS)) \div SECONDS_PER_YEAR

position_borrowing_fee(pos, pool, cfg, dt) ==
    IF SideLiquidity(pool, pos.is_long) = 0 THEN 0
    ELSE BorrowingFeeOver(
            BorrowingRateBps((pos.size_usd * BPS) \div SideLiquidity(pool, pos.is_long), cfg)
                * pos.size_usd,
            dt)

\* a variant that moves the long index only
AddFunding_long_only(pool, rate, current_time) ==
    [pool EXCEPT !.accumulated_funding_long_per_usd = @ + rate,
                 !.last_funding_update = current_time]

AddFunding(pool, rate, current_time) ==
    [pool EXCEPT !.accumulated_funding_long_per_usd = @ + rate,
                 !.accumulated_funding_short_per_usd = @ - rate,
                 !.last_funding_update = current_time]

accrue_pool_amounts(pool, cfg, current_time) ==
    IF SatSub(current_time, pool.last_funding_update) = 0 THEN pool
    ELSE AddFunding(pool,
                    funding_rate_micro(pool, cfg,
                                       SatSub(current_time, pool.last_funding_update)),
                    current_time)

\* settle_position_fees(pos, market, now): the pool is written in place as
\* the function runs (it holds the ledger mutably), pos is the caller's copy.
\* Result: err, the pool as left in the ledger, the caller's copy of pos.
Settled(err, pool, pos, funding_fee, borrowing_fee) ==
    [err |-> err, pool |-> pool, pos |-> pos,
     funding_fee |-> funding_fee, borrowing_fee |-> borrowing_fee]

CurrentFunding(pos, pool) ==
    IF pos.is_long THEN pool.accumulated_funding_long_per_usd
    ELSE pool.accumulated_funding_short_per_usd

FundingFee(pos, pool) ==
    TDiv(pos.size_usd * (CurrentFunding(pos, pool) - pos.funding_fee_per_usd), USD_SCALE)

OwnBucket(pos, pool) ==
    IF pos.is_long THEN pool.claimable_fee_usd_long ELSE pool.claimable_fee_usd_short

\* a funding fee paid goes to the other side's bucket, one received comes
\* out of the position's own side
MoveFunding(pool, is_long, funding_fee) ==
    IF funding_fee > 0 THEN
        IF is_long THEN [pool EXCEPT !.claimable_fee_usd_short = @ + funding_fee]
        ELSE [pool EXCEPT !.claimable_fee_usd_long = @ + funding_fee]
    ELSE IF funding_fee < 0 THEN
        IF is_long THEN [pool EXCEPT !.claimable_fee_usd_long = SatSub(@, -funding_fee)]
        ELSE [pool EXCEPT !.claimable_fee_usd_short = SatSub(@, -funding_fee)]
    ELSE pool

\* the bucket holds less than the credit: pay what it holds and return early
LimitedCredit(pos, pool, available) ==
    Settled("Ok",
            IF pos.is_long THEN [pool EXCEPT !.claimable_fee_usd_long = 0]
            ELSE [pool EXCEPT !.claimable_fee_usd_short = 0],
            [pos EXCEPT !.funding_fee_per_usd = CurrentFunding(pos, pool),
                        !.collateral_usd = @ + available],
            -available, 0)

BorrowingCharge(pos, pool, cfg, current_time) ==
    IF SatSub(current_time, pos.last_fee_update) > 0 /\ pos.size_usd > 0
    THEN position_borrowing_fee(pos, pool, cfg, SatSub(current_time, pos.last_fee_update))
    ELSE 0

CollectBorrowing(pool, is_long, borrowing_fee) ==
    IF is_long
    THEN [pool EXCEPT !.claimable_fee_usd_long = @ + borrowing_fee,
                      !.total_borrowing_fees_usd = @ + borrowing_fee]
    ELSE [pool EXCEPT !.claimable_fee_usd_short = @ + borrowing_fee,
                      !.total_borrowing_fees_usd = @ + borrowing_fee]

\* step 3: the net fee against the collateral of the caller's copy
ApplyNetFee(pos, pool, current_time, funding_fee, borrowing_fee, total_fee_usd) ==
    IF total_fee_usd > 0 /\ total_fee_usd > pos.collateral_usd
    THEN Settled("InsufficientCollateral", pool,
                 [pos EXCEPT !.last_fee_update = current_time, !.collateral_usd = 0],
                 funding_fee, borrowing_fee)
    ELSE Settled("Ok", pool,
                 [pos EXCEPT !.last_fee_update = current_time,
                             !.collateral_usd = IF total_fee_usd > 0
                                                THEN SatSub(@, total_fee_usd)
                                                ELSE @ + (-total_fee_usd)],
                 funding_fee, borrowing_fee)

\* step 2: the borrowing fee goes to the side's bucket
SettleBorrowing(pos, pool, current_time, funding_fee, borrowing_fee) ==
    ApplyNetFee(pos, CollectBorrowing(pool, pos.is_long, borrowing_fee), current_time,
                funding_fee, borrowing_fee, funding_fee + borrowing_fee)

\* step 1: the funding fee
SettleFunding(pos, pool, cfg, current_time, funding_fee, own) ==
    IF funding_fee < 0 /\ own < -funding_fee
    THEN LimitedCredit(pos, pool, own)
    ELSE SettleBorrowing(
            [pos EXCEPT !.funding_fee_per_usd = CurrentFunding(pos, pool)],
            MoveFunding(pool, pos.is_long, funding_fee), current_time, funding_fee,
            BorrowingCharge(pos, MoveFunding(pool, pos.is_long, funding_fee), cfg,
                            current_time))

settle_position_fees(pos, pool, cfg, current_time) ==
    SettleFunding(pos, pool, cfg, current_time, FundingFee(pos, pool), OwnBucket(pos, pool))

\* price_delta * tokens / USD_SCALE against the threshold share of collateral
ValueAtOrBelowThreshold(pos, current_price_usd, liq_bps, tokens_usdx) ==
    IF tokens_usdx = 0 THEN FALSE
    ELSE pos.collateral_usd
            + TDiv((IF pos.is_long THEN current_price_usd - pos.entry_price_usd
                    ELSE pos.entry_price_usd - current_price_usd) * tokens_usdx, USD_SCALE)
         <= (pos.collateral_usd * liq_bps) \div BPS

is_liquidatable(pos, current_price_usd, liq_bps) ==
    IF pos.size_usd = 0 \/ pos.entry_price_usd = 0 THEN FALSE
    ELSE ValueAtOrBelowThreshold(pos, current_price_usd, liq_bps,
                                 MulDiv(pos.size_usd, USD_SCALE, pos.entry_price_usd))

\* ------------------------------------------------------------------------
\* PositionModule (modules/position.rs).  Each operation returns the result
\* and the maps as the call leaves them: a write made before a failing
\* check stays written.
\* ------------------------------------------------------------------------
calculate_pnl(pos, current_price_usd) ==
    IF pos.size_usd = 0 \/ pos.entry_price_usd = 0 THEN 0
    ELSE IF pos.is_long
         THEN TDiv(pos.size_usd * (current_price_usd - pos.entry_price_usd), pos.entry_price_usd)
         ELSE TDiv(pos.size_usd * (pos.entry_price_usd - current_price_usd), pos.entry_price_usd)

\* entry price moved by the share of collateral that may be lost
LiquidationPriceAt(pos, loss_ratio) ==
    IF pos.is_long
    THEN MulDiv(pos.entry_price_usd, SatSub(USD_SCALE, loss_ratio), USD_SCALE)
    ELSE MulDiv(pos.entry_price_usd, USD_SCALE + loss_ratio, USD_SCALE)

calculate_liquidation_price(pos, liq_bps) ==
    IF pos.size_usd = 0 \/ pos.entry_price_usd = 0 THEN 0
    ELSE LiquidationPriceAt(pos,
            (SatSub(pos.collateral_usd, (pos.collateral_usd * liq_bps) \div BPS) * USD_SCALE)
                \div pos.size_usd)

position_key(account, is_long) == <<account, is_long>>

leverage_bps(pos) == (pos.size_usd * BPS) \div pos.collateral_usd
\* a variant that lets every leverage through
LeverageExceeded_never(pos, cfg) == FALSE
LeverageExceeded(pos, cfg) == leverage_bps(pos) > cfg.max_leverage * BPS

NewPosition(account, market, is_long, price, t) ==
    [ account |-> account, market |-> market, is_long |-> is_long,
      size_usd |-> 0, collateral_usd |-> 0, entry_price_usd |-> price,
      liquidation_price_usd |-> 0, funding_fee_per_usd |-> 0, last_fee_update |-> t ]

Outcome(err, pa, pos, bal) == [err |-> err, pa |-> pa, pos |-> pos, bal |-> bal]
Untouched(err) == Outcome(err, pool_amounts, positions, balances)
Wrote(o) == <<o.pa, o.pos, o.bal>> # <<pool_amounts, positions, balances>>

WeightedEntry(pos, size_delta_usd, execution_price_usd) ==
    IF pos.size_usd > 0
    THEN (pos.size_usd * pos.entry_price_usd + size_delta_usd * execution_price_usd)
            \div (pos.size_usd + size_delta_usd)
    ELSE execution_price_usd

\* the caller's copy after the size and collateral are added
StagedIncrease(pos, size_delta_usd, collateral_delta_usd, execution_price_usd) ==
    [pos EXCEPT !.entry_price_usd = WeightedEntry(pos, size_delta_usd, execution_price_usd),
                !.size_usd = @ + size_delta_usd,
                !.collateral_usd = @ + collateral_delta_usd]

\* pool_amounts.entry(market).or_insert_with(PoolAmounts::default)
WithPoolEntry(pa, market) == IF Has(pa, market) THEN pa ELSE Put(pa, market, DefaultPool)

SideOi(pool, is_long) == IF is_long THEN pool.long_oi_usd ELSE pool.short_oi_usd
MaxOi(cfg, is_long) == IF is_long THEN cfg.max_long_oi ELSE cfg.max_short_oi
SetOi(pool, is_long, oi) ==
    IF is_long THEN [pool EXCEPT !.long_oi_usd = oi] ELSE [pool EXCEPT !.short_oi_usd = oi]

\* the liquidation price is computed when both size and collateral are positive
WithLiquidationPrice(pos, cfg) ==
    IF pos.collateral_usd > 0 /\ pos.size_usd > 0
    THEN [pos EXCEPT !.liquidation_price_usd =
             calculate_liquidation_price(pos, cfg.liquidation_threshold_bps)]
    ELSE pos

\* the balance is debited, then the leverage is checked, then the position
\* is stored
IncreaseCommit(key, cfg, collateral_delta_usd, pa, staged) ==
    IF balances[key[1]] < collateral_delta_usd
    THEN Outcome("InsufficientBalance", pa, positions, balances)
    ELSE IF staged.collateral_usd > 0 /\ staged.size_usd > 0 /\ LeverageExceeded(staged, cfg)
    THEN Outcome("MaxLeverageExceeded", pa, positions,
                 [balances EXCEPT ![key[1]] = SatSub(@, collateral_delta_usd)])
    ELSE Outcome("Ok", pa, Put(positions, key, WithLiquidationPrice(staged, cfg)),
                 [balances EXCEPT ![key[1]] = SatSub(@, collateral_delta_usd)])

\* a variant without the two open-interest checks
IncreaseReserve_unchecked(key, market, cfg, size_delta_usd, collateral_delta_usd, pa, staged, new_oi) ==
    IncreaseCommit(key, cfg, collateral_delta_usd,
                   Put(pa, market, SetOi(pa[market], key[2], new_oi)), staged)

\* the open-interest checks, and the write of the side's new open interest
IncreaseReserve(key, market, cfg, size_delta_usd, collateral_delta_usd, pa, staged, new_oi) ==
    IF new_oi > MaxOi(cfg, key[2])
    THEN Outcome("MaxOpenInterestExceeded", pa, positions, balances)
    ELSE IF new_oi > (pa[market].liquidity_usd * cfg.reserve_factor_bps) \div BPS
    THEN Outcome("InsufficientLiquidity", pa, positions, balances)
    ELSE IncreaseCommit(key, cfg, collateral_delta_usd,
                        Put(pa, market, SetOi(pa[market], key[2], new_oi)), staged)

\* from the caller's copy pos (new or settled) and the pool map as settlement left it
IncreaseFrom(key, market, cfg, size_delta_usd, collateral_delta_usd, execution_price_usd, pa, pos) ==
    IncreaseReserve(key, market, cfg, size_delta_usd, collateral_delta_usd, pa,
                    StagedIncrease(pos, size_delta_usd, collateral_delta_usd,
                                   execution_price_usd),
                    SideOi(pa[market], key[2]) + size_delta_usd)

IncreaseSettled(key, market, cfg, size_delta_usd, collateral_delta_usd, execution_price_usd, settled) ==
    IF settled.err # "Ok"
    THEN Outcome(settled.err, Put(pool_amounts, market, settled.pool), positions, balances)
    ELSE IncreaseFrom(key, market, cfg, size_delta_usd, collateral_delta_usd,
                      execution_price_usd, Put(pool_amounts, market, settled.pool),
                      settled.pos)

increase_position(account, market, is_long, size_delta_usd, collateral_delta_usd, execution_price_usd) ==
    IF ~Has(market_configs, market) THEN Untouched("MarketNotFound")
    ELSE IF balances[account] < collateral_delta_usd THEN Untouched("InsufficientBalance")
    ELSE IF ~Has(positions, position_key(account, is_long))
    THEN IncreaseFrom(position_key(account, is_long), market, market_configs[market],
                      size_delta_usd, collateral_delta_usd, execution_price_usd,
                      WithPoolEntry(pool_amounts, market),
                      NewPosition(account, market, is_long, execution_price_usd, now))
    ELSE IF ~Has(pool_amounts, market) THEN Untouched("MarketNotFound")
    ELSE IncreaseSettled(position_key(account, is_long), market, market_configs[market],
                         size_delta_usd, collateral_delta_usd, execution_price_usd,
                         settle_position_fees(positions[position_key(account, is_long)],
                                              pool_amounts[market], market_configs[market],
                                              now))

Payout(base, pnl) == IF pnl >= 0 THEN base + pnl ELSE SatSub(base, Min(base, -pnl))

ApplyPnlToPool(pool, pnl) ==
    IF pnl > 0 THEN [pool EXCEPT !.liquidity_usd = SatSub(@, pnl)]
    ELSE IF pnl < 0 THEN [pool EXCEPT !.liquidity_usd = @ + (-pnl)]
    ELSE pool

ReduceOi(pool, is_long, size) ==
    IF is_long THEN [pool EXCEPT !.long_oi_usd = SatSub(@, size)]
    ELSE [pool EXCEPT !.short_oi_usd = SatSub(@, size)]

\* the position is stored while size is left, removed otherwise
StoreOrRemove(key, cfg, reduced) ==
    IF reduced.size_usd > 0
    THEN Put(positions, key,
             [reduced EXCEPT !.liquidation_price_usd =
                 calculate_liquidation_price(reduced, cfg.liquidation_threshold_bps)])
    ELSE Remove(positions, key)

\* pool, balance and position writes of a decrease with realised pnl_partial
DecreaseCommit(key, market, cfg, size_delta_usd, collateral_delta_usd, pa, pos, pnl_partial) ==
    Outcome("Ok",
            Put(pa, market,
                ApplyPnlToPool(ReduceOi(pa[market], key[2], size_delta_usd), pnl_partial)),
            StoreOrRemove(key, cfg,
                          [pos EXCEPT !.size_usd = SatSub(@, size_delta_usd),
                                      !.collateral_usd = SatSub(@, collateral_delta_usd)]),
            [balances EXCEPT ![key[1]] = @ + Payout(collateral_delta_usd, pnl_partial)])

DecreaseSettled(key, market, cfg, size_delta_usd, collateral_delta_usd, execution_price_usd, settled) ==
    IF settled.err # "Ok"
    THEN Outcome(settled.err, Put(pool_amounts, market, settled.pool), positions, balances)
    ELSE IF size_delta_usd > settled.pos.size_usd
    THEN Outcome("InsufficientPositionSize", Put(pool_amounts, market, settled.pool),
                 positions, balances)
    ELSE IF collateral_delta_usd > settled.pos.collateral_usd
    THEN Outcome("InsufficientCollateral", Put(pool_amounts, market, settled.pool),
                 positions, balances)
    ELSE DecreaseCommit(key, market, cfg, size_delta_usd, collateral_delta_usd,
                        Put(pool_amounts, market, settled.pool), settled.pos,
                        IF settled.pos.size_usd = 0 THEN 0
                        ELSE TDiv(calculate_pnl(settled.pos, execution_price_usd)
                                    * size_delta_usd, settled.pos.size_usd))

decrease_position(account, market, is_long, size_delta_usd, collateral_delta_usd, execution_price_usd) ==
    IF ~Has(market_configs, market) THEN Untouched("MarketNotFound")
    ELSE IF ~Has(positions, position_key(account, is_long)) THEN Untouched("PositionNotFound")
    ELSE IF ~Has(pool_amounts, market) THEN Untouched("MarketNotFound")
    ELSE DecreaseSettled(position_key(account, is_long), market, market_configs[market],
                         size_delta_usd, collateral_delta_usd, execution_price_usd,
                         settle_position_fees(positions[position_key(account, is_long)],
                                              pool_amounts[market], market_configs[market],
                                              now))

\* the liquidator's fee, the owner's payout, the pool and the removal
LiquidateCommit(liquidator, key, pa, pos, total_pnl, liquidation_fee) ==
    Outcome("Ok",
            Put(pa, pos.market,
                ApplyPnlToPool(ReduceOi(pa[pos.market], pos.is_long, pos.size_usd), total_pnl)),
            Remove(positions, key),
            [a \in DOMAIN balances |->
                balances[a]
                + (IF a = liquidator THEN liquidation_fee ELSE 0)
                + (IF a = pos.account
                   THEN Payout(SatSub(pos.collateral_usd, liquidation_fee), total_pnl)
                   ELSE 0)])

LiquidateSettled(liquidator, key, execution_price_usd, liquidation_fee_bps, settled) ==
    IF settled.err # "Ok"
    THEN Outcome(settled.err, Put(pool_amounts, settled.pos.market, settled.pool),
                 positions, balances)
    ELSE LiquidateCommit(liquidator, key,
                         Put(pool_amounts, settled.pos.market, settled.pool), settled.pos,
                         calculate_pnl(settled.pos, execution_price_usd),
                         (settled.pos.collateral_usd * liquidation_fee_bps) \div BPS)

liquidate_position(liquidator, key, execution_price_usd, liquidation_fee_bps) ==
    IF ~Has(positions, key) THEN Untouched("PositionNotFound")
    ELSE IF ~Has(market_configs, positions[key].market)
            \/ ~Has(pool_amounts, positions[key].market)
    THEN Untouched("MarketNotFound")
    ELSE LiquidateSettled(liquidator, key, execution_price_usd, liquidation_fee_bps,
                          settle_position_fees(positions[key],
                                               pool_amounts[positions[key].market],
                                               market_configs[positions[key].market], now))

\* ------------------------------------------------------------------------
\* MarketModule (modules/market.rs)
\* ------------------------------------------------------------------------
MarketOutcome(err, pa, mt, out) == [err |-> err, pa |-> pa, mt |-> mt, out |-> out]
MarketUntouched(err) == MarketOutcome(err, pool_amounts, market_tokens, 0)

\* the Vec<(ActorId, u128)> of LP balances, as a map
Credit(shares, lp, amount) ==
    IF Has(shares, lp) THEN [shares EXCEPT ![lp] = @ + amount] ELSE Put(shares, lp, amount)

module_add_liquidity(lp, market_id, long_token_amount, short_token_amount, min_mint) ==
    IF ~Has(markets, market_id) THEN MarketUntouched("MarketNotFound")
    ELSE IF ~HasPrice(markets[market_id].long_token) \/ ~HasPrice(markets[market_id].short_token)
    THEN MarketUntouched("PriceNotAvailable")
    ELSE IF ~Has(pool_amounts, market_id) \/ ~Has(market_tokens, market_id)
    THEN MarketUntouched("Panic")     \* .unwrap() on a missing entry
    ELSE
    LET long_price == mid(markets[market_id].long_token)
        short_price == mid(markets[market_id].short_token)
        pool == pool_amounts[market_id]
        mt == market_tokens[market_id]
        long_usd == MulDiv(long_token_amount, long_price, USD_SCALE)
        short_usd == MulDiv(short_token_amount, short_price, USD_SCALE)
        added_value == long_usd + short_usd
        mint_amount == IF mt.total_supply = 0 THEN added_value
                       ELSE IF pool.liquidity_usd = 0 THEN 0
                       ELSE MulDiv(mt.total_supply, added_value, pool.liquidity_usd)
    IN
    IF mt.total_supply # 0 /\ pool.liquidity_usd = 0
    THEN MarketUntouched("InsufficientLiquidity")
    ELSE IF mint_amount < min_mint THEN MarketUntouched("SlippageExceeded")
    ELSE MarketOutcome("Ok",
            Put(pool_amounts, market_id,
                [pool EXCEPT !.liquidity_usd = @ + long_usd + short_usd]),
            Put(market_tokens, market_id,
                [total_supply |-> mt.total_supply + mint_amount,
                 balances |-> Credit(mt.balances, lp, mint_amount)]),
            mint_amount)

\* evaluated on the ledger as the service left it (mt0)
module_remove_liquidity(mt0, lp, market_id, market_token_amount, min_long_out, min_short_out) ==
    LET untouched(err) == MarketOutcome(err, pool_amounts, mt0, 0) IN
    IF ~Has(markets, market_id) THEN untouched("MarketNotFound")
    ELSE IF ~HasPrice(markets[market_id].long_token) \/ ~HasPrice(markets[market_id].short_token)
    THEN untouched("PriceNotAvailable")
    ELSE IF ~Has(pool_amounts, market_id) \/ ~Has(mt0, market_id)
    THEN untouched("Panic")
    ELSE IF mt0[market_id].total_supply = 0 THEN untouched("InsufficientLiquidity")
    ELSE
    LET long_price == mid(markets[market_id].long_token)
        short_price == mid(markets[market_id].short_token)
        pool == pool_amounts[market_id]
        mt == mt0[market_id]
        total_supply_snapshot == mt.total_supply
        liq_usd == MulDiv(pool.liquidity_usd, market_token_amount, total_supply_snapshot)
        price_sum == long_price + short_price
    IN
    IF price_sum = 0 THEN untouched("InvalidPrice")
    ELSE
    LET long_usd_base == MulDiv(liq_usd, long_price, price_sum)
        short_usd_base == SatSub(liq_usd, long_usd_base)
        fee_long_usd == MulDiv(pool.claimable_fee_usd_long, market_token_amount,
                               total_supply_snapshot)
        fee_short_usd == MulDiv(pool.claimable_fee_usd_short, market_token_amount,
                                total_supply_snapshot)
        \* a zero price with a non-zero sum divides by zero
        long_out_tokens == MulDiv(long_usd_base + fee_long_usd, USD_SCALE, long_price)
        short_out_tokens == MulDiv(short_usd_base + fee_short_usd, USD_SCALE, short_price)
    IN
    IF long_price = 0 \/ short_price = 0 THEN untouched("Panic")
    ELSE IF long_out_tokens < min_long_out \/ short_out_tokens < min_short_out
    THEN untouched("SlippageExceeded")
    \* from here the pool and the share ledger have been taken out of the maps
    ELSE IF ~Has(mt.balances, lp) \/ mt.balances[lp] < market_token_amount
    THEN MarketOutcome("InsufficientMarketTokens",
                       Remove(pool_amounts, market_id), Remove(mt0, market_id), 0)
    ELSE MarketOutcome("Ok",
            Put(pool_amounts, market_id,
                [pool EXCEPT !.liquidity_usd = SatSub(@, liq_usd),
                             !.claimable_fee_usd_long = SatSub(@, fee_long_usd),
                             !.claimable_fee_usd_short = SatSub(@, fee_short_usd)]),
            Put(mt0, market_id,
                [total_supply |-> SatSub(mt.total_supply, market_token_amount),
                 balances |-> [mt.balances EXCEPT ![lp] = SatSub(@, market_token_amount)]]),
            <<long_out_tokens, short_out_tokens>>)

\* ------------------------------------------------------------------------
\* Admin, market, wallet and oracle services
\* ------------------------------------------------------------------------
TheMarket == [market_token |-> "mkt", index_token |-> IndexToken,
              long_token |-> LongToken, short_token |-> ShortToken]

\* a second description under the same market id
OtherMarket == [market_token |-> "mkt2", index_token |-> "ETH",
                long_token |-> LongToken, short_token |-> ShortToken]
MarketInputs == {TheMarket, OtherMarket}

create_market_overwrite(caller, market, config) ==
    /\ res' = SimpleRes("create_market", IF caller # Admin THEN "Unauthorized" ELSE "Ok", caller)
    /\ IF caller = Admin
       THEN /\ markets' = Put(markets, MarketId, market)
            /\ market_configs' = Put(market_configs, MarketId, config)
            /\ pool_amounts' = Put(pool_amounts, MarketId, DefaultPool)
            /\ market_tokens' = Put(market_tokens, MarketId, DefaultMarketTokenInfo)
       ELSE UNCHANGED <<markets, market_configs, pool_amounts, market_tokens>>
    /\ UNCHANGED <<positions, orders, next_request_id, balances, prices, timestamps,
                   keepers, liquidators, now, calls, flow>>

create_market(caller, market, config) ==
    LET err == IF caller # Admin THEN "Unauthorized"
               ELSE IF Has(markets, MarketId) THEN "MarketAlreadyExists" ELSE "Ok"
    IN
    /\ res' = SimpleRes("create_market", err, caller)
    /\ IF err = "Ok"
       THEN /\ markets' = Put(markets, MarketId, market)
            /\ market_configs' = Put(market_configs, MarketId, config)
            /\ pool_amounts' = Put(pool_amounts, MarketId, DefaultPool)
            /\ market_tokens' = Put(market_tokens, MarketId, DefaultMarketTokenInfo)
       ELSE UNCHANGED <<markets, market_configs, pool_amounts, market_tokens>>
    /\ UNCHANGED <<positions, orders, next_request_id, balances, prices, timestamps,
                   keepers, liquidators, now, calls, flow>>

CreateMarket(caller, config) == create_market(caller, TheMarket, config)

SetMarketConfig(caller, config) ==
    LET err == IF caller # Admin THEN "Unauthorized"
               ELSE IF ~Has(markets, MarketId) THEN "MarketNotFound" ELSE "Ok"
    IN
    /\ res' = SimpleRes("set_market_config", err, caller)
    /\ market_configs' = IF err = "Ok" THEN Put(market_configs, MarketId, config)
                         ELSE market_configs
    /\ UNCHANGED <<markets, pool_amounts, market_tokens, positions, orders, next_request_id,
                   balances, prices, timestamps, keepers, liquidators, now, calls,
                   flow>>

AddKeeper(caller, keeper) ==
    /\ res' = SimpleRes("add_keeper", IF caller = Admin THEN "Ok" ELSE "Unauthorized", caller)
    /\ keepers' = IF caller = Admin THEN keepers \cup {keeper} ELSE keepers
    /\ UNCHANGED <<markets, market_configs, pool_amounts, market_tokens, positions, orders,
                   next_request_id, balances, prices, timestamps, liquidators, now, calls, flow>>

PoolLiquidity ==
    IF Has(pool_amounts, MarketId) THEN pool_amounts[MarketId].liquidity_usd ELSE 0

AddLiquidity(lp, long_token_amount, short_token_amount, min_mint) ==
    LET m == module_add_liquidity(lp, MarketId, long_token_amount, short_token_amount, min_mint)
        \* the service credits the minted shares once more to the LP
        credited == [m.mt EXCEPT ![MarketId].balances = Credit(@, lp, m.out)]
    IN
    /\ PoolLiquidity < MaxLiquidity
    /\ res' = SimpleRes("add_liquidity", m.err, lp)
    /\ pool_amounts' = m.pa
    /\ market_tokens' = IF m.err = "Ok" THEN credited ELSE m.mt
    /\ UNCHANGED <<markets, market_configs, positions, orders, next_request_id, balances,
                   prices, timestamps, keepers, liquidators, now, calls, flow>>

\* the balance check of the exposed remove_liquidity, before its burn
RemoveLiquidityChecks(lp, market_token_amount) ==
    IF ~Has(market_tokens, MarketId) THEN "MarketNotFound"
    ELSE IF ~Has(market_tokens[MarketId].balances, lp) THEN "InsufficientMarketTokens"
    ELSE IF market_tokens[MarketId].balances[lp] < market_token_amount
         THEN "InsufficientMarketTokens"
    ELSE "Ok"

RemoveLiquidity(lp, market_token_amount, min_long_out, min_short_out) ==
    LET precheck == RemoveLiquidityChecks(lp, market_token_amount)
        \* "burn first": the service debits the LP, then calls the module
        burned == [market_tokens EXCEPT ![MarketId].balances[lp] = SatSub(@, market_token_amount)]
        m == module_remove_liquidity(burned, lp, MarketId, market_token_amount,
                                     min_long_out, min_short_out)
    IN
    /\ res' = SimpleRes("remove_liquidity", IF precheck # "Ok" THEN precheck ELSE m.err, lp)
    /\ IF precheck # "Ok"
       THEN UNCHANGED <<pool_amounts, market_tokens>>
       ELSE /\ pool_amounts' = m.pa
            /\ market_tokens' = m.mt
    /\ UNCHANGED <<markets, market_configs, positions, orders, next_request_id, balances,
                   prices, timestamps, keepers, liquidators, now, calls, flow>>

Deposit(caller, amount) ==
    /\ balances[caller] + amount <= MaxBalance
    /\ res' = SimpleRes("deposit", IF amount = 0 THEN "InvalidParameter" ELSE "Ok", caller)
    /\ balances' = [balances EXCEPT ![caller] = @ + amount]
    /\ UNCHANGED <<markets, market_configs, pool_amounts, market_tokens, positions, orders,
                   next_request_id, prices, timestamps, keepers, liquidators, now, calls, flow>>

Withdraw(caller, amount) ==
    LET err == IF amount = 0 THEN "InvalidParameter"
               ELSE IF balances[caller] < amount THEN "InsufficientBalance" ELSE "Ok"
    IN
    /\ res' = SimpleRes("withdraw", err, caller)
    /\ balances' = IF err = "Ok" THEN [balances EXCEPT ![caller] = SatSub(@, amount)]
                   ELSE balances
    /\ UNCHANGED <<markets, market_configs, pool_amounts, market_tokens, positions, orders,
                   next_request_id, prices, timestamps, keepers, liquidators, now, calls, flow>>

RECURSIVE ApplyBatch(_, _, _)
\* the loop of OracleModule::set_prices over the batch: an entry older than
\* max_age_seconds stops it, with the entries before it already stored
ApplyBatch(batch, pr, ts) ==
    IF batch = <<>> THEN [err |-> "Ok", prices |-> pr, timestamps |-> ts]
    ELSE LET sp == Head(batch) IN
         IF SatSub(now, sp.timestamp) > DEFAULT_MAX_AGE
         THEN [err |-> "PriceStale", prices |-> pr, timestamps |-> ts]
         ELSE ApplyBatch(Tail(batch), Put(pr, sp.token, sp.price),
                         Put(ts, sp.token, sp.timestamp))

SignedPrice(token, value, timestamp) ==
    [token |-> token, price |-> [min |-> value, max |-> value], timestamp |-> timestamp]
\* pool tokens at their fixed price and the index at p, all signed at t
Quotes(p, t) ==
    << SignedPrice(LongToken, TokenPrice, t), SignedPrice(ShortToken, TokenPrice, t),
       SignedPrice(MarketId, p, t) >>

SetPrices(caller, batch) ==
    LET r == ApplyBatch(batch, prices, timestamps)
    IN
    /\ res' = SimpleRes("set_prices", r.err, caller)
    /\ prices' = r.prices
    /\ timestamps' = r.timestamps
    /\ UNCHANGED <<markets, market_configs, pool_amounts, market_tokens, positions, orders,
                   next_request_id, balances, keepers, liquidators, now, calls, flow>>

Tick ==
    /\ now < MaxTicks * TickSeconds
    /\ now' = now + TickSeconds
    /\ res' = SimpleRes("tick", "Ok", Admin)
    /\ UNCHANGED <<markets, market_configs, pool_amounts, market_tokens, positions, orders,
                   next_request_id, balances, prices, timestamps, keepers, liquidators, calls, flow>>

\* ------------------------------------------------------------------------
\* PricingModule (modules/pricing.rs)
\*
\* The powers and products of calculate_price_impact_usd are computed at
\* their 128-bit width. `impact_relative * size_usd as i128` is an unchecked
\* product: outside i128 it panics in a build with overflow checks and wraps
\* in one without; overflow_checks says which build runs.
\* ------------------------------------------------------------------------
PriceImpact(err, value) == [err |-> err, value |-> value]

\* |long - short| * 10_000 / (long + short), for long + short > 0
ImbalanceBps(long_oi, short_oi) == MulDiv(Abs(long_oi - short_oi), BPS, long_oi + short_oi)

RECURSIVE PowerLoop(_, _, _)
PowerLoop(result, base, n) ==
    IF n = 0 THEN result ELSE PowerLoop(BigMulSmall(result, base), base, n - 1)
\* base <= 10_000 and exp <= 8 keep the checked products below 2^128
safe_power(base, exp) ==
    IF exp = 0 THEN ToLimbs(1)
    ELSE IF exp = 1 THEN ToLimbs(base)
    ELSE PowerLoop(ToLimbs(base), base, exp - 1)

\* a variant with the cap at a fifth of the size
CappedImpact_fifth(raw_neg, raw_mag, size_usd) ==
    PriceImpact("Ok",
                IF raw_neg
                THEN IF ~FitsInt(raw_mag) THEN size_usd \div 5
                     ELSE Min(ToInt(raw_mag), size_usd \div 5)
                ELSE IF ~FitsInt(raw_mag) THEN -(size_usd \div 5)
                     ELSE -Min(ToInt(raw_mag), size_usd \div 5))

\* the sign inverted and the cap of a tenth of the size applied
CappedImpact(raw_neg, raw_mag, size_usd) ==
    PriceImpact("Ok",
                IF raw_neg
                THEN IF ~FitsInt(raw_mag) THEN size_usd \div 10
                     ELSE Min(ToInt(raw_mag), size_usd \div 10)
                ELSE IF ~FitsInt(raw_mag) THEN -(size_usd \div 10)
                     ELSE -Min(ToInt(raw_mag), size_usd \div 10))

WrappedImpact(wrapped, size_usd) == CappedImpact(wrapped[1], BigDivSmall(wrapped[2], BPS), size_usd)

\* impact_relative * size / 10_000
UsdImpact(neg, product, size_usd, overflow_checks) ==
    IF OutsideI128(neg, product)
    THEN IF overflow_checks THEN PriceImpact("Panic", 0)
         ELSE WrappedImpact(WrapI128(neg, Low128(product)), size_usd)
    ELSE CappedImpact(neg, BigDivSmall(product, BPS), size_usd)

\* diff.checked_mul(impact_factor).checked_div(10_000)
RelativeImpact(neg, product, size_usd, overflow_checks) ==
    IF OutsideI128(neg, product) THEN PriceImpact("MathOverflow", 0)
    ELSE UsdImpact(neg, BigMul(BigDivSmall(product, BPS), size_usd), size_usd, overflow_checks)

PoweredImpact(before, after, impact_factor, size_usd, overflow_checks) ==
    IF BigGeq(after, before)
    THEN RelativeImpact(FALSE, BigMulSmall(BigSub(after, before), impact_factor), size_usd,
                        overflow_checks)
    ELSE RelativeImpact(TRUE, BigMulSmall(BigSub(before, after), impact_factor), size_usd,
                        overflow_checks)

ImpactBetween(cfg, d_before_bps, d_after_bps, size_usd, overflow_checks) ==
    PoweredImpact(safe_power(d_before_bps, Min(Max(cfg.pi_exponent, 1), 8)),
                  safe_power(d_after_bps, Min(Max(cfg.pi_exponent, 1), 8)),
                  IF d_after_bps < d_before_bps THEN cfg.pi_factor_positive
                  ELSE cfg.pi_factor_negative,
                  size_usd, overflow_checks)

ImpactAfter(cfg, d_before_bps, new_long_oi, new_short_oi, size_usd, overflow_checks) ==
    IF new_long_oi + new_short_oi <= 0 THEN PriceImpact("Ok", 0)
    ELSE ImpactBetween(cfg, d_before_bps, ImbalanceBps(new_long_oi, new_short_oi), size_usd,
                       overflow_checks)

\* a variant without the early return on an empty market
calculate_price_impact_usd_no_first(pool, cfg, is_long, size_usd, is_increase, overflow_checks) ==
    IF ~is_increase /\ size_usd > SideOi(pool, is_long)
    THEN PriceImpact("InsufficientOpenInterest", 0)
    ELSE ImpactAfter(cfg,
                     IF pool.long_oi_usd + pool.short_oi_usd = 0 THEN 0
                     ELSE ImbalanceBps(pool.long_oi_usd, pool.short_oi_usd),
                     IF ~is_long THEN pool.long_oi_usd
                     ELSE IF is_increase THEN pool.long_oi_usd + size_usd
                     ELSE pool.long_oi_usd - size_usd,
                     IF is_long THEN pool.short_oi_usd
                     ELSE IF is_increase THEN pool.short_oi_usd + size_usd
                     ELSE pool.short_oi_usd - size_usd,
                     size_usd, overflow_checks)

calculate_price_impact_usd(pool, cfg, is_long, size_usd, is_increase, overflow_checks) ==
    IF pool.long_oi_usd = 0 /\ pool.short_oi_usd = 0 THEN PriceImpact("Ok", 0)
    ELSE IF ~is_increase /\ size_usd > SideOi(pool, is_long)
    THEN PriceImpact("InsufficientOpenInterest", 0)
    ELSE ImpactAfter(cfg, ImbalanceBps(pool.long_oi_usd, pool.short_oi_usd),
                     IF ~is_long THEN pool.long_oi_usd
                     ELSE IF is_increase THEN pool.long_oi_usd + size_usd
                     ELSE pool.long_oi_usd - size_usd,
                     IF is_long THEN pool.short_oi_usd
                     ELSE IF is_increase THEN pool.short_oi_usd + size_usd
                     ELSE pool.short_oi_usd - size_usd,
                     size_usd, overflow_checks)

price_key(id_or_token) ==
    IF Has(markets, id_or_token) THEN markets[id_or_token].index_token ELSE id_or_token

QuoteResult(err, execution_price, price_impact_usd) ==
    [err |-> err, execution_price |-> execution_price, price_impact_usd |-> price_impact_usd]

\* a variant that returns the price as impacted
ClampedQuote_none(mid_price, execution_price_unclamped, price_impact_usd) ==
    QuoteResult("Ok", execution_price_unclamped, price_impact_usd)

\* the clamp to a tenth of mid on either side
ClampedQuote(mid_price, execution_price_unclamped, price_impact_usd) ==
    QuoteResult("Ok",
                Min(Max(execution_price_unclamped, SatSub(mid_price, mid_price \div 10)),
                    mid_price + mid_price \div 10),
                price_impact_usd)

\* a long increase and a short decrease buy, the other two sell; an impact
\* in the trader's favour lowers a buy price and raises a sell price
ImpactedQuote(mid_price, base_price, buys, price_impact_bps, impact_abs, price_impact_usd) ==
    ClampedQuote(mid_price,
                 IF buys = (price_impact_bps >= 0) THEN SatSub(base_price, impact_abs)
                 ELSE base_price + impact_abs,
                 price_impact_usd)

BasedQuote(mid_price, base_price, buys, price_impact_bps, price_impact_usd) ==
    ImpactedQuote(mid_price, base_price, buys, price_impact_bps,
                  MulDiv(base_price, Abs(price_impact_bps), BPS), price_impact_usd)

PricedQuote(mid_price, half_spread, buys, size_usd, impact) ==
    IF impact.err # "Ok" THEN QuoteResult(impact.err, 0, 0)
    ELSE BasedQuote(mid_price,
                    IF buys THEN mid_price + half_spread ELSE SatSub(mid_price, half_spread),
                    buys,
                    IF size_usd = 0 THEN 0
                    ELSE IF impact.value >= 0 THEN MulDiv(impact.value, BPS, size_usd)
                    ELSE -MulDiv(-impact.value, BPS, size_usd),
                    impact.value)

quote(market, is_long, size_usd, is_increase, overflow_checks) ==
    IF ~Has(market_configs, market) \/ ~Has(pool_amounts, market)
    THEN QuoteResult("MarketNotFound", 0, 0)
    ELSE IF ~HasPrice(price_key(market)) THEN QuoteResult("PriceNotAvailable", 0, 0)
    ELSE PricedQuote(mid(price_key(market)), spread(price_key(market)) \div 2,
                     is_long = is_increase, size_usd,
                     calculate_price_impact_usd(pool_amounts[market], market_configs[market],
                                                is_long, size_usd, is_increase,
                                                overflow_checks))

\* quote_increase and quote_decrease: queries, the ledger stays as it is; the
\* arguments and the result are in res
QuoteAnswer(caller, is_long, size_usd, is_increase, overflow_checks, result) ==
    [op |-> IF is_increase THEN "quote_increase" ELSE "quote_decrease",
     err |-> result.err, who |-> caller, pk |-> NoKey, ok |-> 0, typ |-> "none",
     is_long |-> is_long, size_usd |-> size_usd, is_increase |-> is_increase,
     overflow_checks |-> overflow_checks,
     execution_price |-> result.execution_price,
     price_impact_usd |-> result.price_impact_usd]

Quote(caller, is_long, size_usd, is_increase, overflow_checks) ==
    /\ calls < MaxQuotes
    /\ calls' = calls + 1
    /\ res' = QuoteAnswer(caller, is_long, size_usd, is_increase, overflow_checks,
                          quote(MarketId, is_long, size_usd, is_increase, overflow_checks))
    /\ UNCHANGED <<markets, market_configs, pool_amounts, market_tokens, positions, orders,
                   next_request_id, balances, prices, timestamps, keepers, liquidators,
                   now, flow>>

\* ------------------------------------------------------------------------
\* TradingModule (modules/trading.rs)
\* ------------------------------------------------------------------------
validate_order_params(params) ==
    IF params.size_delta_usd = 0 THEN "InvalidOrderSize"
    ELSE IF params.trigger_price = 0 \/ params.acceptable_price = 0 THEN "InvalidPrice"
    ELSE IF params.order_type \in IncreaseTypes /\ params.collateral_delta_amount = 0
         THEN "InvalidCollateralAmount"
    ELSE "Ok"

\* a variant whose stop-loss rows are those of a take-profit
can_execute_limit_order_swapped(params, current_price) ==
    CASE params.order_type = "LimitIncrease" ->
            IF params.is_long THEN current_price <= params.trigger_price
            ELSE current_price >= params.trigger_price
      [] params.order_type \in {"LimitDecrease", "StopLossDecrease"} ->
            IF params.is_long THEN current_price >= params.trigger_price
            ELSE current_price <= params.trigger_price
      [] OTHER -> FALSE

can_execute_limit_order(params, current_price) ==
    CASE params.order_type = "LimitIncrease" ->
            IF params.is_long THEN current_price <= params.trigger_price
            ELSE current_price >= params.trigger_price
      [] params.order_type = "LimitDecrease" ->
            IF params.is_long THEN current_price >= params.trigger_price
            ELSE current_price <= params.trigger_price
      [] params.order_type = "StopLossDecrease" ->
            IF params.is_long THEN current_price <= params.trigger_price
            ELSE current_price >= params.trigger_price
      [] OTHER -> FALSE

\* a variant that accepts every price
validate_execution_price_any(params, execution_price) == "Ok"

validate_execution_price(params, execution_price) ==
    LET is_increase == params.order_type \in IncreaseTypes
        ok == IF params.is_long
              THEN IF is_increase THEN execution_price <= params.acceptable_price
                   ELSE execution_price >= params.acceptable_price
              ELSE IF is_increase THEN execution_price >= params.acceptable_price
                   ELSE execution_price <= params.acceptable_price
    IN  IF ok THEN "Ok" ELSE "PriceNotAcceptable"

execute_position_change(caller, params, price) ==
    IF params.order_type \in IncreaseTypes
    THEN increase_position(caller, params.market, params.is_long, params.size_delta_usd,
                           params.collateral_delta_amount, price)
    ELSE IF params.order_type \in DecreaseTypes
    THEN decrease_position(caller, params.market, params.is_long, params.size_delta_usd,
                           params.collateral_delta_amount, price)
    ELSE Untouched("UnsupportedOrderType")

\* execute_market_order / execute_limit_order
execute_order_now(caller, params, execution_price) ==
    IF validate_execution_price(params, execution_price) # "Ok"
    THEN Untouched("PriceNotAcceptable")
    ELSE execute_position_change(caller, params, execution_price)

\* the oracle checks shared by create_order and execute_saved_order; the
\* price is read under the market id itself
OracleCheck(market) ==
    IF ~HasPrice(market) THEN "PriceNotAvailable"
    ELSE IF ~Has(timestamps, market) THEN "PriceStale"
    ELSE IF IsStale(timestamps[market]) THEN "PriceStale"
    ELSE "Ok"

order_to_params(order) ==
    [ market |-> order.market, order_type |-> order.order_type, is_long |-> order.is_long,
      size_delta_usd |-> order.size_delta_usd,
      collateral_delta_amount |-> order.collateral_delta_amount,
      trigger_price |-> order.trigger_price, acceptable_price |-> order.acceptable_price,
      execution_fee |-> order.execution_fee ]

NewOrder(caller, params) ==
    [ account |-> caller, market |-> params.market, order_type |-> params.order_type,
      size_delta_usd |-> params.size_delta_usd,
      collateral_delta_amount |-> params.collateral_delta_amount,
      trigger_price |-> params.trigger_price, acceptable_price |-> params.acceptable_price,
      is_long |-> params.is_long, status |-> "Created",
      execution_fee |-> params.execution_fee ]

PoolValue(pa) ==
    IF Has(pa, MarketId)
    THEN pa[MarketId].liquidity_usd + pa[MarketId].claimable_fee_usd_long
            + pa[MarketId].claimable_fee_usd_short
    ELSE 0
BalanceSum(bal) == bal["admin"] + bal["alice"] + bal["bob"] + bal["lp"]
\* USD that a position call moved into accounts, fee buckets and pool liquidity
FlowDelta(o) ==
    (BalanceSum(o.bal) - BalanceSum(balances)) + (PoolValue(o.pa) - PoolValue(pool_amounts))
\* the account of one position's life: it starts afresh when the key is opened
Booked(o, key) ==
    IF o.err = "Ok" /\ Wrote(o)
    THEN [flow EXCEPT ![key] = (IF Has(positions, key) THEN @ ELSE 0) + FlowDelta(o)]
    ELSE flow

\* what a call into the position module leaves behind
PositionCall(op, who, pk, ok, typ, o) ==
    /\ Wrote(o) => calls < MaxCalls
    /\ calls' = IF Wrote(o) THEN calls + 1 ELSE calls
    /\ res' = Res(op, o.err, who, pk, ok, typ)
    /\ pool_amounts' = o.pa
    /\ positions' = o.pos
    /\ balances' = o.bal
    /\ flow' = Booked(o, pk)
    /\ UNCHANGED <<markets, market_configs, market_tokens, prices, timestamps, keepers,
                   liquidators, now>>

save_order(caller, params) ==
    /\ next_request_id <= MaxOrders
    /\ res' = Res("create_order", "Ok", caller, position_key(caller, params.is_long),
                  next_request_id, params.order_type)
    /\ orders' = Put(orders, next_request_id, NewOrder(caller, params))
    /\ next_request_id' = next_request_id + 1
    /\ UNCHANGED <<markets, market_configs, pool_amounts, market_tokens, positions, balances,
                   prices, timestamps, keepers, liquidators, now, calls, flow>>

CreateOrderReturn(caller, params, o) ==
    /\ PositionCall("create_order", caller, position_key(caller, params.is_long), 0,
                    params.order_type, o)
    /\ UNCHANGED <<orders, next_request_id>>

\* the checks of create_order before it routes the order
CreateOrderChecks(params) ==
    IF ~Has(markets, params.market) THEN "MarketNotFound"
    ELSE IF validate_order_params(params) # "Ok" THEN validate_order_params(params)
    ELSE OracleCheck(params.market)

CreateOrderRoute(caller, params, early) ==
    IF early # "Ok" THEN CreateOrderReturn(caller, params, Untouched(early))
    ELSE IF params.order_type \in {"MarketIncrease", "MarketDecrease"}
    THEN CreateOrderReturn(caller, params,
                           execute_order_now(caller, params, mid(params.market)))
    ELSE IF params.order_type \in LimitTypes
    THEN IF can_execute_limit_order(params, mid(params.market))
         THEN CreateOrderReturn(caller, params,
                                execute_order_now(caller, params, mid(params.market)))
         ELSE save_order(caller, params)
    ELSE CreateOrderReturn(caller, params, Untouched("UnsupportedOrderType"))

CreateOrder(caller, params) == CreateOrderRoute(caller, params, CreateOrderChecks(params))

\* a variant that freezes the order when its execution fails
ExecuteReturn_freezes(executor, key, pk, typ, o) ==
    /\ PositionCall("execute_saved_order", executor, pk, key, typ, o)
    /\ orders' = IF o.err = "Ok" THEN [orders EXCEPT ![key].status = "Executed"]
                 ELSE IF Has(orders, key) THEN [orders EXCEPT ![key].status = "Frozen"]
                 ELSE orders
    /\ UNCHANGED next_request_id

ExecuteReturn(executor, key, pk, typ, o) ==
    /\ PositionCall("execute_saved_order", executor, pk, key, typ, o)
    /\ orders' = IF o.err = "Ok" THEN [orders EXCEPT ![key].status = "Executed"] ELSE orders
    /\ UNCHANGED next_request_id

\* a variant that skips the trigger check
ExecuteOutcome_untriggered(order, params) ==
    IF order.status # "Created" THEN Untouched("OrderAlreadyProcessed")
    ELSE IF OracleCheck(order.market) # "Ok" THEN Untouched(OracleCheck(order.market))
    ELSE IF validate_execution_price(params, mid(order.market)) # "Ok"
    THEN Untouched("PriceNotAcceptable")
    ELSE execute_position_change(order.account, params, mid(order.market))

ExecuteOutcome(order, params) ==
    IF order.status # "Created" THEN Untouched("OrderAlreadyProcessed")
    ELSE IF OracleCheck(order.market) # "Ok" THEN Untouched(OracleCheck(order.market))
    ELSE IF ~can_execute_limit_order(params, mid(order.market))
    THEN Untouched("OrderCannotBeExecutedYet")
    ELSE IF validate_execution_price(params, mid(order.market)) # "Ok"
    THEN Untouched("PriceNotAcceptable")
    ELSE execute_position_change(order.account, params, mid(order.market))

ExecuteSavedOrder(executor, key) ==
    IF ~Has(orders, key)
    THEN ExecuteReturn(executor, key, NoKey, "none", Untouched("OrderNotFound"))
    ELSE ExecuteReturn(executor, key, position_key(orders[key].account, orders[key].is_long),
                       orders[key].order_type,
                       ExecuteOutcome(orders[key], order_to_params(orders[key])))

\* a variant that lets the owner update an order in any state
UpdateOrderChecks_any_state(caller, key) ==
    IF ~Has(orders, key) THEN "OrderNotFound"
    ELSE IF orders[key].account # caller THEN "Unauthorized"
    ELSE "Ok"

UpdateOrderChecks(caller, key) ==
    IF ~Has(orders, key) THEN "OrderNotFound"
    ELSE IF orders[key].account # caller THEN "Unauthorized"
    ELSE IF orders[key].status # "Created" THEN "OrderAlreadyProcessed"
    ELSE "Ok"

\* Some(v) replaces the field, None (-1) keeps it
Updated(order, params) ==
    [order EXCEPT
        !.size_delta_usd = IF params.size_delta_usd = -1 THEN @ ELSE params.size_delta_usd,
        !.trigger_price = IF params.trigger_price = -1 THEN @ ELSE params.trigger_price,
        !.acceptable_price = IF params.acceptable_price = -1 THEN @
                             ELSE params.acceptable_price]

UpdateOrder(caller, key, params) ==
    /\ res' = Res("update_order", UpdateOrderChecks(caller, key), caller, NoKey, key, "none")
    /\ orders' = IF UpdateOrderChecks(caller, key) = "Ok"
                 THEN [orders EXCEPT ![key] = Updated(@, params)]
                 ELSE orders
    /\ UNCHANGED <<markets, market_configs, pool_amounts, market_tokens, positions,
                   next_request_id, balances, prices, timestamps, keepers, liquidators,
                   now, calls, flow>>

\* a variant that lets any account cancel
CancelOrderChecks_anyone(caller, key) ==
    IF ~Has(orders, key) THEN "OrderNotFound"
    ELSE IF orders[key].status # "Created" THEN "OrderAlreadyProcessed"
    ELSE "Ok"

CancelOrderChecks(caller, key) ==
    IF ~Has(orders, key) THEN "OrderNotFound"
    ELSE IF orders[key].account # caller THEN "Unauthorized"
    ELSE IF orders[key].status # "Created" THEN "OrderAlreadyProcessed"
    ELSE "Ok"

CancelOrder(caller, key) ==
    /\ res' = Res("cancel_order", CancelOrderChecks(caller, key), caller, NoKey, key, "none")
    /\ orders' = IF CancelOrderChecks(caller, key) = "Ok"
                 THEN [orders EXCEPT ![key].status = "Cancelled"]
                 ELSE orders
    /\ UNCHANGED <<markets, market_configs, pool_amounts, market_tokens, positions,
                   next_request_id, balances, prices, timestamps, keepers, liquidators,
                   now, calls, flow>>

\* ------------------------------------------------------------------------
\* ExecutorService (services/executor_service.rs)
\* ------------------------------------------------------------------------
LiquidateChecks_unguarded(liquidator, key) ==
    IF ~Has(positions, key) THEN "PositionNotFound"
    ELSE IF ~HasPrice(positions[key].market) THEN "PriceNotAvailable"
    ELSE IF ~Has(market_configs, positions[key].market) THEN "MarketNotFound"
    ELSE "Ok"

LiquidateChecks(liquidator, key) ==
    IF liquidator \notin keepers /\ liquidator \notin liquidators THEN "NotLiquidator"
    ELSE IF ~Has(positions, key) THEN "PositionNotFound"
    ELSE IF ~HasPrice(positions[key].market) THEN "PriceNotAvailable"
    ELSE IF ~Has(market_configs, positions[key].market) THEN "MarketNotFound"
    ELSE IF ~is_liquidatable(positions[key], mid(positions[key].market),
                             market_configs[positions[key].market].liquidation_threshold_bps)
    THEN "PositionNotLiquidatable"
    ELSE "Ok"

\* The service closes the position through decrease_position with the
\* position's own size and collateral as read before the call (it names them
\* size_in_usd and collateral_amount; Position has size_usd and collateral_usd).
LiquidateClose(position) ==
    decrease_position(position.account, position.market, position.is_long,
                      position.size_usd, position.collateral_usd, mid(position.market))

LiquidateReturn(liquidator, key, o) ==
    /\ PositionCall("liquidate_position", liquidator, key, 0, "none", o)
    /\ UNCHANGED <<orders, next_request_id>>

LiquidatePosition(liquidator, key) ==
    IF LiquidateChecks(liquidator, key) # "Ok"
    THEN LiquidateReturn(liquidator, key, Untouched(LiquidateChecks(liquidator, key)))
    ELSE LiquidateReturn(liquidator, key, LiquidateClose(positions[key]))

\* can_liquidate: a query, the ledger stays as it is; the answer is in res.typ
CanLiquidateAnswer(key) ==
    IF ~Has(positions, key) THEN <<"PositionNotFound", "none">>
    ELSE IF ~HasPrice(positions[key].market) THEN <<"PriceNotAvailable", "none">>
    ELSE IF ~Has(market_configs, positions[key].market) THEN <<"MarketNotFound", "none">>
    ELSE IF is_liquidatable(positions[key], mid(positions[key].market),
                            market_configs[positions[key].market].liquidation_threshold_bps)
    THEN <<"Ok", "true">>
    ELSE <<"Ok", "false">>

CanLiquidate(caller, key) ==
    /\ res' = Res("can_liquidate", CanLiquidateAnswer(key)[1], caller, key, 0,
                  CanLiquidateAnswer(key)[2])
    /\ UNCHANGED <<markets, market_configs, pool_amounts, market_tokens, positions, orders,
                   next_request_id, balances, prices, timestamps, keepers, liquidators,
                   now, calls, flow>>

get_executable_orders ==
    { key \in DOMAIN orders :
        /\ orders[key].status = "Created"
        /\ HasPrice(orders[key].market)
        /\ LET order == orders[key]
               m == mid(order.market)
           IN CASE order.order_type = "LimitIncrease" ->
                     IF order.is_long THEN m <= order.trigger_price
                     ELSE m >= order.trigger_price
                [] order.order_type = "LimitDecrease" ->
                     IF order.is_long THEN m >= order.trigger_price
                     ELSE m <= order.trigger_price
                [] order.order_type = "StopLossDecrease" ->
                     IF order.is_long THEN m <= order.trigger_price
                     ELSE m >= order.trigger_price
                [] OTHER -> FALSE }

\* ------------------------------------------------------------------------
\* Engine operations that no service calls
\* ------------------------------------------------------------------------
AccruePool(market) ==
    /\ res' = SimpleRes("accrue_pool",
                        IF ~Has(market_configs, market) \/ ~Has(pool_amounts, market)
                        THEN "MarketNotFound" ELSE "Ok", Admin)
    /\ pool_amounts' = IF ~Has(market_configs, market) \/ ~Has(pool_amounts, market)
                       THEN pool_amounts
                       ELSE Put(pool_amounts, market,
                                accrue_pool_amounts(pool_amounts[market],
                                                    market_configs[market], now))
    /\ UNCHANGED <<markets, market_configs, market_tokens, positions, orders,
                   next_request_id, balances, prices, timestamps, keepers, liquidators,
                   now, calls, flow>>

PositionLiquidate(liquidator, key, execution_price_usd, liquidation_fee_bps) ==
    /\ PositionCall("position_liquidate", liquidator, key, 0, "none",
                    liquidate_position(liquidator, key, execution_price_usd,
                                       liquidation_fee_bps))
    /\ UNCHANGED <<orders, next_request_id>>

\* ------------------------------------------------------------------------
\* Specifications
\* ------------------------------------------------------------------------
\* Steps shared by the specifications: market set-up, the wallet and the pool
Setup ==
    \/ CreateMarket(Admin, BaseConfig)
    \/ \E a \in DepositInputs : Deposit("alice", a)
    \/ \E lp \in LPs, a \in LiquidityInputs : AddLiquidity(lp, a, a, 0)

\* Positions: market orders, the liquidation engine, funding accrual, the
\* pool and its limits
NextPositions ==
    \/ Setup
    \/ Tick
    \/ \E p \in PositionPrices : SetPrices("bob", Quotes(p, now))
    \/ SetMarketConfig(Admin, TightConfig)
    \/ \E params \in MarketOrderInputs : CreateOrder("alice", params)
    \/ AccruePool(MarketId)
    \/ \E key \in LongKeys, f \in LiquidationFeeInputs :
          HasPrice(MarketId) /\ PositionLiquidate("bob", key, mid(MarketId), f)

SpecPositions == Init /\ [][NextPositions]_vars

\* Orders: saved limit and stop orders and their life cycle
NextOrders ==
    \/ Setup
    \/ \E p \in IndexPrices : SetPrices("bob", Quotes(p, now))
    \/ \E params \in LimitOrderInputs : CreateOrder("alice", params)
    \/ \E key \in 1..MaxOrders : ExecuteSavedOrder("bob", key)
    \/ \E c \in Callers, key \in 1..MaxOrders, params \in UpdateInputs :
          UpdateOrder(c, key, params)
    \/ \E c \in Callers, key \in 1..MaxOrders : CancelOrder(c, key)

SpecOrders == Init /\ [][NextOrders]_vars

\* Liquidity: deposits into and withdrawals from the pool by two providers
NextLiquidity ==
    \/ CreateMarket(Admin, BaseConfig)
    \/ \E p \in PositionPrices : SetPrices("bob", Quotes(p, now))
    \/ \E lp \in LiquidityProviders, a \in PoolTokenInputs, b \in PoolTokenInputs,
          m \in MinOutInputs : AddLiquidity(lp, a, b, m)
    \/ \E lp \in LiquidityProviders, sh \in BurnInputs, m \in MinOutInputs :
          RemoveLiquidity(lp, sh, m, 0)

SpecLiquidity == Init /\ [][NextLiquidity]_vars

\* Rally: market orders of one trader while the index price multiplies
NextRally ==
    \/ Setup
    \/ \E p \in RallyPrices : SetPrices("bob", Quotes(p, now))
    \/ \E params \in MarketOrderInputs : CreateOrder("alice", params)

SpecRally == Init /\ [][NextRally]_vars

\* Liquidation: a keeper and a stranger calling the exposed liquidation on a
\* long position while the price and the time move
NextLiquidation ==
    \/ Setup
    \/ Tick
    \/ \E p \in PositionPrices : SetPrices("bob", Quotes(p, now))
    \/ \E params \in MarketOrderInputs : CreateOrder("alice", params)
    \/ AddKeeper(Admin, "bob")
    \/ \E l \in Callers, key \in LongKeys : LiquidatePosition(l, key)

SpecLiquidation == Init /\ [][NextLiquidation]_vars

\* Dust: positions of a few micro-USD on an index priced in micro-USD, and
\* the liquidation query on them
NextDust ==
    \/ Setup
    \/ \E p \in DustPrices : SetPrices("bob", Quotes(p, now))
    \/ \E params \in DustOrderInputs : CreateOrder("alice", params)
    \/ \E key \in PositionKeys : CanLiquidate("bob", key)

SpecDust == Init /\ [][NextDust]_vars

\* Funding: both sides open with the longs in the majority, the funding
\* indices move with the time
NextFunding ==
    \/ Setup
    \/ Tick
    \/ \E p \in PositionPrices : SetPrices("bob", Quotes(p, now))
    \/ SetMarketConfig(Admin, SteepConfig)
    \/ \E params \in FundingOrderInputs : CreateOrder("alice", params)
    \/ AccruePool(MarketId)

SpecFunding == Init /\ [][NextFunding]_vars

\* Validation: orders that meet and orders that miss the rules of create_order
NextValidation ==
    \/ Setup
    \/ \E p \in PositionPrices : SetPrices("bob", Quotes(p, now))
    \/ \E params \in ValidationOrderInputs : CreateOrder("alice", params)

SpecValidation == Init /\ [][NextValidation]_vars

\* Pricing: quotes on a market whose open interest, price-impact settings and
\* oracle price are drawn from the input sets
PricingInit ==
    /\ markets = Put(EmptyMap, MarketId, TheMarket)
    /\ \E cfg \in ImpactConfigs : market_configs = Put(EmptyMap, MarketId, cfg)
    /\ \E l \in OiInputs, s \in OiInputs :
          pool_amounts = Put(EmptyMap, MarketId,
                             [DefaultPool EXCEPT !.long_oi_usd = l, !.short_oi_usd = s])
    /\ market_tokens = Put(EmptyMap, MarketId, DefaultMarketTokenInfo)
    /\ positions = EmptyMap
    /\ orders = EmptyMap
    /\ next_request_id = 1
    /\ balances = [a \in Actors |-> 0]
    /\ \E p \in SpreadPrices : prices = Put(EmptyMap, IndexToken, p)
    /\ timestamps = Put(EmptyMap, IndexToken, 0)
    /\ keepers = {}
    /\ liquidators = {}
    /\ now = 0
    /\ calls = 0
    /\ flow = [k \in PositionKeys |-> 0]
    /\ res = SimpleRes("init", "Ok", Admin)

NextPricing ==
    \E is_long \in BOOLEAN, size_usd \in QuoteSizes, is_increase \in BOOLEAN,
       overflow_checks \in BOOLEAN :
        Quote("alice", is_long, size_usd, is_increase, overflow_checks)

SpecPricing == PricingInit /\ [][NextPricing]_vars

\* Market administration by the admin and by others, on a market that takes liquidity
AdminCallers == Callers \cup {Admin}

NextAdmin ==
    \/ \E c \in AdminCallers, m \in MarketInputs, cfg \in Configs : create_market(c, m, cfg)
    \/ \E c \in AdminCallers, cfg \in Configs : SetMarketConfig(c, cfg)
    \/ \E p \in PositionPrices : SetPrices("bob", Quotes(p, now))
    \/ \E lp \in LiquidityProviders, a \in PoolTokenInputs : AddLiquidity(lp, a, a, 0)
    \/ \E lp \in LiquidityProviders, sh \in BurnInputs : RemoveLiquidity(lp, sh, 0, 0)

SpecAdmin == Init /\ [][NextAdmin]_vars

\* ------------------------------------------------------------------------
\* The borrow flag of the global ledger.  STATE is a RefCell: get() takes a
\* shared guard ("get"), get_mut() an exclusive one ("get_mut"); a guard bound
\* with let lives to the end of its scope ("drop" releases the innermost).
\* A call is followed as the sequence of these events along the path it takes.
\* ------------------------------------------------------------------------

\* RefCell::borrow_mut is refused while any guard is alive, RefCell::borrow
\* while an exclusive guard is alive; a refused borrow panics
Refused(held, kind) ==
    IF kind = "get_mut" THEN held # <<>>
    ELSE \E i \in 1..Len(held) : held[i] = "get_mut"

RECURSIVE BorrowPanics(_, _)
BorrowPanics(events, held) ==
    IF events = <<>> THEN FALSE
    ELSE IF Head(events) = "drop"
    THEN BorrowPanics(Tail(events), SubSeq(held, 1, Len(held) - 1))
    ELSE IF Refused(held, Head(events)) THEN TRUE
    ELSE BorrowPanics(Tail(events), Append(held, Head(events)))

\* a guard taken and released inside a callee
Scoped(kind) == <<kind, "drop">>

\* OracleModule::mid, spread and last_update each read the ledger through a
\* guard of their own; mid and spread fail on a token without a price
OracleReads(market, n) ==
    IF ~HasPrice(market) THEN Scoped("get")
    ELSE IF n = 2 THEN Scoped("get") \o Scoped("get")
    ELSE Scoped("get") \o Scoped("get") \o Scoped("get")

\* PositionModule::decrease_position: the read block, settle_position_fees,
\* then the write back
decrease_position_borrows == Scoped("get") \o Scoped("get_mut") \o Scoped("get_mut")

\* TradingModule::create_order holds its exclusive guard from its first line
\* to its return; the events are followed up to the oracle checks
create_order_borrows(params) ==
    IF ~Has(markets, params.market) \/ validate_order_params(params) # "Ok"
    THEN <<"get_mut", "drop">>
    ELSE <<"get_mut">> \o OracleReads(params.market, 3) \o <<"drop">>

\* TradingModule::execute_saved_order, likewise
execute_saved_order_borrows(key) ==
    IF ~Has(orders, key) THEN <<"get_mut", "drop">>
    ELSE IF orders[key].status # "Created" THEN <<"get_mut", "drop">>
    ELSE <<"get_mut">> \o OracleReads(orders[key].market, 2) \o <<"drop">>

\* ExecutorService::liquidate_position holds a shared guard to its return
\* (its config reference borrows from it): get_position, mid, then the close
liquidate_position_borrows(liquidator, key) ==
    IF LiquidateChecks(liquidator, key) = "NotLiquidator" THEN <<"get", "drop">>
    ELSE IF LiquidateChecks(liquidator, key) = "PositionNotFound"
    THEN <<"get">> \o Scoped("get") \o <<"drop">>
    ELSE IF LiquidateChecks(liquidator, key) # "Ok"
    THEN <<"get">> \o Scoped("get") \o Scoped("get") \o <<"drop">>
    ELSE <<"get">> \o Scoped("get") \o Scoped("get") \o decrease_position_borrows
         \o <<"drop">>

\* the read block that opens MarketModule::add_liquidity and remove_liquidity:
\* a shared guard held over the two OracleModule::mid calls
MarketReadBlock == <<"get">> \o Scoped("get") \o Scoped("get") \o <<"drop">>

\* MarketService::remove_liquidity holds its exclusive guard over the call of
\* MarketModule::remove_liquidity
remove_liquidity_borrows(lp, market_token_amount) ==
    IF RemoveLiquidityChecks(lp, market_token_amount) # "Ok" THEN <<"get_mut", "drop">>
    ELSE <<"get_mut">> \o MarketReadBlock \o Scoped("get_mut") \o <<"drop">>

\* MarketService::add_liquidity calls the module first and takes its own
\* guard after the module has returned
add_liquidity_borrows == MarketReadBlock \o Scoped("get_mut") \o Scoped("get_mut")

\* a panic traps the message: the ledger stays as it was before the call
Trapped(op, caller) ==
    /\ res' = SimpleRes(op, "BorrowPanic", caller)
    /\ UNCHANGED <<markets, market_configs, pool_amounts, market_tokens, positions, orders,
                   next_request_id, balances, prices, timestamps, keepers, liquidators,
                   now, calls, flow>>

CreateOrderMessage(caller, params) ==
    IF BorrowPanics(create_order_borrows(params), <<>>)
    THEN Trapped("create_order", caller)
    ELSE CreateOrder(caller, params)

ExecuteSavedOrderMessage(executor, key) ==
    IF BorrowPanics(execute_saved_order_borrows(key), <<>>)
    THEN Trapped("execute_saved_order", executor)
    ELSE ExecuteSavedOrder(executor, key)

LiquidatePositionMessage(liquidator, key) ==
    IF BorrowPanics(liquidate_position_borrows(liquidator, key), <<>>)
    THEN Trapped("liquidate_position", liquidator)
    ELSE LiquidatePosition(liquidator, key)

RemoveLiquidityMessage(lp, market_token_amount, min_long_out, min_short_out) ==
    IF BorrowPanics(remove_liquidity_borrows(lp, market_token_amount), <<>>)
    THEN Trapped("remove_liquidity", lp)
    ELSE RemoveLiquidity(lp, market_token_amount, min_long_out, min_short_out)

AddLiquidityMessage(lp, long_token_amount, short_token_amount, min_mint) ==
    IF BorrowPanics(add_liquidity_borrows, <<>>)
    THEN Trapped("add_liquidity", lp)
    ELSE AddLiquidity(lp, long_token_amount, short_token_amount, min_mint)

\* Messages handled under the borrow flag, on a market with prices, a keeper
\* and liquidity
NextBorrows ==
    \/ \E cfg \in Configs : CreateMarket(Admin, cfg)
    \/ \E p \in PositionPrices : SetPrices("bob", Quotes(p, now))
    \/ AddKeeper(Admin, "bob")
    \/ \E c \in Traders, a \in DepositInputs : Deposit(c, a)
    \/ \E lp \in LiquidityProviders, a \in PoolTokenInputs : AddLiquidityMessage(lp, a, a, 0)
    \/ \E lp \in LiquidityProviders, sh \in BurnInputs : RemoveLiquidityMessage(lp, sh, 0, 0)
    \/ \E c \in Traders, params \in ValidationOrderInputs : CreateOrderMessage(c, params)
    \/ \E c \in Callers, key \in 1..MaxOrders : ExecuteSavedOrderMessage(c, key)
    \/ \E l \in Callers, key \in LongKeys : LiquidatePositionMessage(l, key)

SpecBorrows == Init /\ [][NextBorrows]_vars

\* Every exposed operation, with callers that are and are not entitled
Next ==
    \/ NextAdmin
    \/ NextBorrows
    \/ NextPricing
    \/ NextValidation
    \/ NextFunding
    \/ NextDust
    \/ NextLiquidation
    \/ NextPositions
    \/ NextOrders
    \/ NextLiquidity
    \/ NextRally
    \/ \E params \in InvalidOrderInputs : CreateOrder("alice", params)
    \/ \E c \in Callers, cfg \in Configs : CreateMarket(c, cfg)
    \/ \E c \in Callers, cfg \in Configs : SetMarketConfig(c, cfg)
    \/ \E c \in Callers \cup {Admin} : AddKeeper(c, "bob")
    \/ \E l \in Callers, key \in PositionKeys : LiquidatePosition(l, key)
    \/ \E lp \in LPs, sh \in ShareInputs, m \in MinOutInputs : RemoveLiquidity(lp, sh, m, 0)
    \/ \E c \in Traders, a \in DepositInputs \cup {0} : Withdraw(c, a)
    \/ \E c \in Traders : Deposit(c, 0)
    \/ \E p \in IndexPrices : SetPrices("bob", Quotes(p, 0))

Spec == Init /\ [][Next]_vars

\* ------------------------------------------------------------------------
\* Properties
\* ------------------------------------------------------------------------

\* C1: an exposed operation (create_order, update_order, cancel_order,
\* execute_saved_order, liquidate_position, add_liquidity, remove_liquidity,
\* create_market, set_market_config) that returns an error leaves the whole
\* ledger as it was before the call.
FailedCallLeavesLedger ==
    [][(/\ res'.op \in {"create_order", "update_order", "cancel_order",
                        "execute_saved_order", "liquidate_position", "add_liquidity",
                        "remove_liquidity", "create_market", "set_market_config"}
        /\ res'.err # "Ok")
       => ledger' = ledger]_vars

\* C2: when an increase fails with MaxLeverageExceeded, the open interest of
\* the position's side and the balance of the account are what they were
\* before the call.
LeverageFailureLeavesOiAndBalance ==
    [][res'.err = "MaxLeverageExceeded"
       => /\ SideOi(pool_amounts'[MarketId], res'.pk[2])
                = (IF Has(pool_amounts, MarketId)
                   THEN SideOi(pool_amounts[MarketId], res'.pk[2]) ELSE 0)
          /\ balances'[res'.pk[1]] = balances[res'.pk[1]]]_vars

\* C3: over the life of a position that ends closed, the USD credited to
\* accounts, fee buckets and pool liquidity equals the USD debited from them,
\* up to one unit of rounding for each call.
ClosedPositionConserves ==
    \A key \in PositionKeys : ~Has(positions, key) => Abs(flow[key]) <= MaxCalls

\* C4: in every pool the long and the short funding index sum to zero.
FundingIndicesSumToZero ==
    \A m \in DOMAIN pool_amounts :
        pool_amounts[m].accumulated_funding_long_per_usd
            + pool_amounts[m].accumulated_funding_short_per_usd = 0

\* a pool whose funding indices have moved away from zero
FundingHasAccrued ==
    \E m \in DOMAIN pool_amounts :
        /\ pool_amounts[m].accumulated_funding_long_per_usd > 0
        /\ pool_amounts[m].accumulated_funding_short_per_usd < 0

\* C5: after a successful increase the position's size * 10000 / collateral
\* is at most max_leverage * 10000, and the bound is inclusive: a new position
\* at exactly the maximum leverage is stored, one unit of size more is turned
\* down with MaxLeverageExceeded.
LeverageWithinMax ==
    [][\A params \in MarketOrderInputs :
          (/\ params.order_type \in IncreaseTypes
           /\ CreateOrder("alice", params)
           /\ res'.err \in {"Ok", "MaxLeverageExceeded"})
          => /\ res'.err = "Ok"
                  => /\ Has(positions', res'.pk)
                     /\ leverage_bps(positions'[res'.pk])
                           <= market_configs[params.market].max_leverage * BPS
             /\ ~Has(positions, res'.pk)
                  => (res'.err = "Ok"
                        <=> (params.size_delta_usd * BPS) \div params.collateral_delta_amount
                               <= market_configs[params.market].max_leverage * BPS)]_vars

\* an increase has just stored a position at exactly the maximum leverage
IncreasedAtMaxLeverage ==
    /\ res.op = "create_order" /\ res.err = "Ok" /\ res.typ \in IncreaseTypes
    /\ Has(positions, res.pk)
    /\ leverage_bps(positions[res.pk])
          = market_configs[positions[res.pk].market].max_leverage * BPS

\* C6: an increase whose new side open interest exceeds the side's maximum
\* fails with MaxOpenInterestExceeded; one within the maximum but above
\* liquidity_usd * reserve_factor_bps / 10000 fails with InsufficientLiquidity;
\* after a successful one the side's open interest is within both limits.
OpenInterestWithinCaps ==
    [][\A params \in MarketOrderInputs :
          (/\ params.order_type \in IncreaseTypes
           /\ CreateOrder("alice", params)
           /\ res'.err \in {"Ok", "MaxOpenInterestExceeded", "InsufficientLiquidity",
                            "MaxLeverageExceeded"})
          => LET cfg == market_configs[params.market]
                 new_oi == (IF Has(pool_amounts, params.market)
                            THEN SideOi(pool_amounts[params.market], params.is_long)
                            ELSE 0) + params.size_delta_usd
                 cap == (pool_amounts'[params.market].liquidity_usd
                            * cfg.reserve_factor_bps) \div BPS
             IN /\ res'.err = "MaxOpenInterestExceeded"
                      <=> new_oi > MaxOi(cfg, params.is_long)
                /\ res'.err = "InsufficientLiquidity"
                      <=> (new_oi <= MaxOi(cfg, params.is_long) /\ new_oi > cap)
                /\ res'.err = "Ok"
                      => /\ SideOi(pool_amounts'[params.market], params.is_long) = new_oi
                         /\ new_oi <= MaxOi(cfg, params.is_long)
                         /\ new_oi <= cap]_vars

\* an increase has just brought the long open interest to its maximum
IncreasedToMaxOi ==
    /\ res.op = "create_order" /\ res.err = "Ok" /\ res.typ \in IncreaseTypes
    /\ Has(pool_amounts, MarketId) /\ Has(market_configs, MarketId)
    /\ pool_amounts[MarketId].long_oi_usd = market_configs[MarketId].max_long_oi

\* C7: after every successful call long_oi_usd <= max_long_oi and
\* short_oi_usd <= max_short_oi in every market.
OiWithinConfiguredMax ==
    res.err = "Ok"
    => \A m \in (DOMAIN pool_amounts) \cap (DOMAIN market_configs) :
          /\ pool_amounts[m].long_oi_usd <= market_configs[m].max_long_oi
          /\ pool_amounts[m].short_oi_usd <= market_configs[m].max_short_oi

\* C8: every stored position has size_usd > 0.
StoredPositionsHaveSize ==
    \A key \in DOMAIN positions : positions[key].size_usd > 0

\* C9 as stated: an order that is not Created never changes again, and
\* update_order, cancel_order and execute_saved_order on it fail with
\* OrderAlreadyProcessed and leave the ledger as it was.
TerminalOrderAlwaysAlreadyProcessed ==
    [][\A key \in DOMAIN orders :
          orders[key].status # "Created"
          => /\ orders'[key] = orders[key]
             /\ (res'.op \in {"update_order", "cancel_order", "execute_saved_order"}
                    /\ res'.ok = key)
                  => (res'.err = "OrderAlreadyProcessed" /\ ledger' = ledger)]_vars

\* C9: an order that is not Created never changes again; update_order and
\* cancel_order by its owner and execute_saved_order by anyone fail on it with
\* OrderAlreadyProcessed, update_order and cancel_order by another account
\* fail with Unauthorized, and each of these calls leaves the ledger as it
\* was.
TerminalOrderIsFinal ==
    [][\A key \in DOMAIN orders :
          orders[key].status # "Created"
          => /\ orders'[key] = orders[key]
             /\ (res'.op \in {"update_order", "cancel_order", "execute_saved_order"}
                    /\ res'.ok = key)
                  => /\ ledger' = ledger
                     /\ res'.err = IF res'.op # "execute_saved_order"
                                        /\ res'.who # orders[key].account
                                     THEN "Unauthorized"
                                     ELSE "OrderAlreadyProcessed"]_vars

\* an executed order has just been turned down a second time
ExecutedOrderTurnedDown ==
    /\ res.op \in {"update_order", "cancel_order", "execute_saved_order"}
    /\ res.err = "OrderAlreadyProcessed"
    /\ Has(orders, res.ok) /\ orders[res.ok].status = "Executed"

\* C10: the trigger predicate is: LimitIncrease long mid <= trigger, short
\* mid >= trigger; LimitDecrease long mid >= trigger, short mid <= trigger;
\* StopLossDecrease long mid <= trigger, short mid >= trigger; never for the
\* other order types. get_executable_orders holds exactly the Created orders
\* that have a price and satisfy it, and an order that create_order has just
\* saved does not satisfy it.
TriggerPredicate ==
    /\ \A t \in OrderTypes, l \in BOOLEAN, m \in IndexPrices, trigger \in IndexPrices :
          can_execute_limit_order(Params(t, l, 1000, 100, trigger, 100), m)
            <=> \/ t = "LimitIncrease" /\ l /\ m <= trigger
                \/ t = "LimitIncrease" /\ ~l /\ m >= trigger
                \/ t = "LimitDecrease" /\ l /\ m >= trigger
                \/ t = "LimitDecrease" /\ ~l /\ m <= trigger
                \/ t = "StopLossDecrease" /\ l /\ m <= trigger
                \/ t = "StopLossDecrease" /\ ~l /\ m >= trigger
    /\ get_executable_orders
          = { key \in DOMAIN orders :
                /\ orders[key].status = "Created"
                /\ HasPrice(orders[key].market)
                /\ can_execute_limit_order(order_to_params(orders[key]),
                                           mid(orders[key].market)) }
    /\ (res.op = "create_order" /\ res.err = "Ok" /\ res.ok # 0)
          => res.ok \notin get_executable_orders

\* a saved order has become executable
SavedOrderExecutable ==
    \E key \in get_executable_orders : orders[key].status = "Created"

\* C11: an order is executed, at once or from storage, only at a price that
\* satisfies acceptable_price by direction (long increase and short decrease:
\* price <= acceptable_price; long decrease and short increase: price >=
\* acceptable_price); otherwise the call fails with PriceNotAcceptable and
\* the ledger, the order's status included, is as before.
AcceptablePriceGuardsExecution ==
    [][/\ \A params \in LimitOrderInputs :
             (res'.op = "create_order" /\ res'.err \in {"Ok", "PriceNotAcceptable"}
                 /\ res'.ok = 0 /\ CreateOrder("alice", params))
             => LET price == mid(params.market)
                    within == IF params.is_long = (params.order_type \in IncreaseTypes)
                              THEN price <= params.acceptable_price
                              ELSE price >= params.acceptable_price
                IN /\ res'.err = "Ok" => within
                   /\ res'.err = "PriceNotAcceptable" => (~within /\ ledger' = ledger)
       /\ \A key \in DOMAIN orders :
             (res'.op = "execute_saved_order" /\ res'.ok = key
                 /\ orders[key].status = "Created" /\ OracleCheck(orders[key].market) = "Ok")
             => LET order == orders[key]
                    price == mid(order.market)
                    within == IF order.is_long = (order.order_type \in IncreaseTypes)
                              THEN price <= order.acceptable_price
                              ELSE price >= order.acceptable_price
                IN /\ res'.err = "Ok" => within
                   /\ res'.err = "PriceNotAcceptable" => (~within /\ ledger' = ledger)
                   /\ (can_execute_limit_order(order_to_params(order), price) /\ ~within)
                         => res'.err = "PriceNotAcceptable"]_vars

\* a saved order whose trigger holds has just been turned down for its price
SavedOrderPriceNotAcceptable ==
    /\ res.op = "execute_saved_order" /\ res.err = "PriceNotAcceptable"
    /\ Has(orders, res.ok) /\ orders[res.ok].status = "Created"

\* the step is a create_order of alice with params, which passed the checks
\* and whose trigger does not hold at the current mid
CreatedUntriggered(params) ==
    /\ res'.op = "create_order" /\ res'.who = "alice" /\ CreateOrderChecks(params) = "Ok"
    /\ ~can_execute_limit_order(params, mid(params.market))
    /\ CreateOrder("alice", params)

\* the step is an execute_saved_order on the Created order key, the price fresh
ExecutedFromStorage(key) ==
    /\ res'.op = "execute_saved_order" /\ res'.ok = key
    /\ orders[key].status = "Created" /\ OracleCheck(orders[key].market) = "Ok"

\* C12: a limit or stop order whose trigger does not hold at the current mid is
\* stored as Created with positions, pools and balances as before; executing it
\* fails with OrderCannotBeExecutedYet and changes nothing while the trigger
\* does not hold; once the trigger holds the call is no longer turned down for
\* the trigger, and it sets the order Executed exactly when it returns Ok.
UntriggeredOrderWaits ==
    [][/\ \A params \in LimitOrderInputs :
             CreatedUntriggered(params)
             => /\ res'.err = "Ok" /\ res'.ok = next_request_id
                /\ orders' = Put(orders, next_request_id, NewOrder("alice", params))
                /\ orders'[next_request_id].status = "Created"
                /\ positions' = positions /\ pool_amounts' = pool_amounts
                /\ balances' = balances
       /\ \A key \in DOMAIN orders :
             ExecutedFromStorage(key)
             => IF can_execute_limit_order(order_to_params(orders[key]), mid(orders[key].market))
                THEN /\ res'.err # "OrderCannotBeExecutedYet"
                     /\ (res'.err = "Ok") = (orders'[key].status = "Executed")
                     /\ orders'[key].status \in {"Created", "Executed"}
                ELSE /\ res'.err = "OrderCannotBeExecutedYet"
                     /\ ledger' = ledger]_vars

\* C12 as stated: execute_saved_order succeeds whenever the trigger holds
TriggeredOrderAlwaysExecutes ==
    [][\A key \in DOMAIN orders :
          (ExecutedFromStorage(key)
              /\ can_execute_limit_order(order_to_params(orders[key]), mid(orders[key].market)))
          => (res'.err = "Ok" /\ orders'[key].status = "Executed")]_vars

\* a saved long LimitIncrease has been executed from storage at a mid at or
\* below its trigger
SavedLimitIncreaseExecuted ==
    /\ res.op = "execute_saved_order" /\ res.err = "Ok" /\ Has(orders, res.ok)
    /\ orders[res.ok].status = "Executed" /\ orders[res.ok].order_type = "LimitIncrease"
    /\ orders[res.ok].is_long /\ mid(MarketId) <= orders[res.ok].trigger_price

\* C13: after every successful order execution, at once inside create_order or
\* through execute_saved_order, the pool of the order's market has been accrued
\* to the time of the call: its last_funding_update equals that timestamp.
OrderExecutionAccruesPool ==
    (/\ res.op \in {"create_order", "execute_saved_order"} /\ res.err = "Ok"
     /\ res.typ \in IncreaseTypes \cup DecreaseTypes
     /\ (res.op = "create_order" => res.ok = 0))
    => (Has(pool_amounts, MarketId) /\ pool_amounts[MarketId].last_funding_update = now)

\* shares of lp in the ledger mt, none when the entry or the ledger is missing
SharesOf(mt, lp) ==
    IF Has(mt, MarketId) /\ Has(mt[MarketId].balances, lp) THEN mt[MarketId].balances[lp] ELSE 0
TotalSupply(mt) == IF Has(mt, MarketId) THEN mt[MarketId].total_supply ELSE 0
\* USD value of a deposit at the pool tokens' current mid prices
AddedUsd(a, b) == MulDiv(a, mid(LongToken), USD_SCALE) + MulDiv(b, mid(ShortToken), USD_SCALE)
\* the mint the deposit is due on the values before it
MintFor(added) ==
    IF TotalSupply(market_tokens) = 0 THEN added
    ELSE MulDiv(TotalSupply(market_tokens), added, PoolLiquidity)

\* C15: a successful add_liquidity mints added_usd when total_supply is 0 and
\* total_supply * added_usd / liquidity_usd (values before the deposit)
\* otherwise; afterwards liquidity_usd has grown by added_usd, total_supply by
\* the mint and the depositing LP's share balance by exactly the mint.
AddLiquidityCreditsMint ==
    [][\A lp \in LiquidityProviders, a \in PoolTokenInputs, b \in PoolTokenInputs,
          m \in MinOutInputs :
          (res'.op = "add_liquidity" /\ res'.err = "Ok" /\ res'.who = lp
              /\ AddLiquidity(lp, a, b, m))
          => /\ PoolLiquidity' = PoolLiquidity + AddedUsd(a, b)
             /\ TotalSupply(market_tokens') = TotalSupply(market_tokens) + MintFor(AddedUsd(a, b))
             /\ SharesOf(market_tokens', lp)
                    = SharesOf(market_tokens, lp) + MintFor(AddedUsd(a, b))]_vars

\* C16: a remove_liquidity that fails with InsufficientMarketTokens, the LP's
\* share balance being smaller than the requested shares, leaves the pool
\* amounts, total_supply and every LP share balance as they were, and the
\* market's pool entry and share-ledger entry still exist.
InsufficientSharesLeavesMarket ==
    [][(res'.op = "remove_liquidity" /\ res'.err = "InsufficientMarketTokens")
       => /\ Has(pool_amounts', MarketId) /\ Has(market_tokens', MarketId)
          /\ pool_amounts' = pool_amounts /\ market_tokens' = market_tokens]_vars

\* the step is a remove_liquidity of sh shares by lp that passed the service's
\* balance check
RemovedBy(lp, sh, m) ==
    /\ res'.op = "remove_liquidity" /\ res'.who = lp /\ SharesOf(market_tokens, lp) >= sh
    /\ RemoveLiquidity(lp, sh, m, 0)
\* the pro-rata part of amount that sh shares are due on the supply before
ProRata(amount, sh) == MulDiv(amount, sh, TotalSupply(market_tokens))

\* C17: a successful remove_liquidity of shares lowers the LP's share balance
\* and total_supply by exactly shares, and liquidity_usd and both claimable-fee
\* buckets by their pro-rata amounts on the values before the call; one that
\* fails with SlippageExceeded burns no shares.
RemoveLiquidityBurnsShares ==
    [][\A lp \in LiquidityProviders, sh \in BurnInputs, m \in MinOutInputs :
          RemovedBy(lp, sh, m)
          => /\ res'.err = "Ok"
                => /\ SharesOf(market_tokens', lp) = SharesOf(market_tokens, lp) - sh
                   /\ TotalSupply(market_tokens') = TotalSupply(market_tokens) - sh
                   /\ PoolLiquidity' = PoolLiquidity - ProRata(PoolLiquidity, sh)
                   /\ pool_amounts'[MarketId].claimable_fee_usd_long
                         = pool_amounts[MarketId].claimable_fee_usd_long
                           - ProRata(pool_amounts[MarketId].claimable_fee_usd_long, sh)
                   /\ pool_amounts'[MarketId].claimable_fee_usd_short
                         = pool_amounts[MarketId].claimable_fee_usd_short
                           - ProRata(pool_amounts[MarketId].claimable_fee_usd_short, sh)
             /\ res'.err = "SlippageExceeded" => market_tokens' = market_tokens]_vars

\* C14: on a successful execute_saved_order the order's execution_fee moves
\* from the owner's balance to the executor's exactly when the executor is not
\* the owner and the owner can afford it (here: before the call and after the
\* position change alike); otherwise the executor's balance stays as it is.
ExecutionFeeReachesExecutor ==
    [][\A key \in DOMAIN orders :
          (ExecutedFromStorage(key) /\ res'.err = "Ok")
          => /\ orders'[key].status = "Executed"
             /\ IF /\ res'.who # orders[key].account
                    /\ balances[orders[key].account] >= orders[key].execution_fee
                    /\ balances'[orders[key].account] >= orders[key].execution_fee
                THEN balances'[res'.who] = balances[res'.who] + orders[key].execution_fee
                ELSE balances'[res'.who] >= balances[res'.who]]_vars

\* alice's long position with its fees settled at the time of the call
SettledLong ==
    settle_position_fees(positions[<<"alice", TRUE>>], pool_amounts[MarketId],
                         market_configs[MarketId], now)
\* the share of the full position's PnL at price that size_delta realises
PnlShare(pos, size_delta, price) == TDiv(calculate_pnl(pos, price) * size_delta, pos.size_usd)
\* the step is a market decrease of alice's long position that reached the
\* position module with the fees settled
DecreasedBy(params) ==
    /\ res'.op = "create_order" /\ res'.typ = "MarketDecrease" /\ params.is_long
    /\ CreateOrderChecks(params) = "Ok"
    /\ validate_execution_price(params, mid(MarketId)) = "Ok"
    /\ Has(positions, <<"alice", TRUE>>) /\ Has(pool_amounts, MarketId)
    /\ SettledLong.err = "Ok"
    /\ CreateOrder("alice", params)
\* what the position, the account and the pool are after a decrease of the
\* settled position pos that realised pnl_share
DecreaseBooked(params, pos, pnl_share) ==
    /\ IF pos.size_usd = params.size_delta_usd
       THEN ~Has(positions', <<"alice", TRUE>>)
       ELSE /\ Has(positions', <<"alice", TRUE>>)
            /\ positions'[<<"alice", TRUE>>].size_usd = pos.size_usd - params.size_delta_usd
            /\ positions'[<<"alice", TRUE>>].collateral_usd
                   = pos.collateral_usd - params.collateral_delta_amount
    /\ balances'["alice"]
          = balances["alice"] + Max(0, params.collateral_delta_amount + pnl_share)
    /\ pool_amounts'[MarketId].long_oi_usd
          = pool_amounts[MarketId].long_oi_usd - params.size_delta_usd
    /\ pool_amounts'[MarketId].liquidity_usd = pool_amounts[MarketId].liquidity_usd - pnl_share

\* C18: a successful decrease_position lowers size_usd by size_delta_usd and
\* collateral_usd by collateral_delta_usd, credits the account with
\* max(0, collateral_delta_usd + pnl_share), lowers the side's open interest
\* by size_delta_usd and changes liquidity_usd by exactly -pnl_share, where
\* pnl_share is the full position's PnL times size_delta_usd / size_usd; it
\* fails when size_delta_usd > size_usd or collateral_delta_usd > collateral_usd.
DecreaseSettlesPnlShare ==
    [][\A params \in MarketOrderInputs :
          DecreasedBy(params)
          => IF \/ params.size_delta_usd > SettledLong.pos.size_usd
                \/ params.collateral_delta_amount > SettledLong.pos.collateral_usd
             THEN res'.err # "Ok"
             ELSE /\ res'.err = "Ok"
                  /\ DecreaseBooked(params, SettledLong.pos,
                                    PnlShare(SettledLong.pos, params.size_delta_usd,
                                             mid(MarketId)))]_vars

\* the position under key with its fees settled at the time of the call
SettledAt(key) ==
    settle_position_fees(positions[key], pool_amounts[positions[key].market],
                         market_configs[positions[key].market], now)
\* the step is a successful liquidation, through operation op, of the position
\* under key by an account other than its owner
LiquidatedBy(op, key) ==
    /\ res'.op = op /\ res'.err = "Ok" /\ res'.pk = key /\ Has(positions, key)
    /\ res'.who # positions[key].account
\* what the accounts, the pool and the position store are after a liquidation
\* of the settled position pos with the given fee and PnL
LiquidationBooked(key, liquidator, pos, liquidation_fee, pnl) ==
    /\ balances'[liquidator] = balances[liquidator] + liquidation_fee
    /\ balances'[pos.account]
          = balances[pos.account] + Max(0, pos.collateral_usd - liquidation_fee + pnl)
    /\ SideOi(pool_amounts'[pos.market], pos.is_long)
          = SideOi(pool_amounts[pos.market], pos.is_long) - pos.size_usd
    /\ pool_amounts'[pos.market].liquidity_usd = pool_amounts[pos.market].liquidity_usd - pnl
    /\ ~Has(positions', key)

\* C19: a successful call of the exposed liquidate_position pays the liquidator
\* collateral_usd * liquidation_fee_bps / 10_000 (collateral after fee
\* settlement), pays the owner max(0, collateral_usd - liquidation_fee + pnl),
\* lowers the side's open interest by the position's size, changes
\* liquidity_usd by -pnl and removes the position.
ExposedLiquidationPaysFee ==
    [][\A key \in LongKeys, f \in LiquidationFeeInputs :
          LiquidatedBy("liquidate_position", key)
          => LiquidationBooked(key, res'.who, SettledAt(key).pos,
                               (SettledAt(key).pos.collateral_usd * f) \div BPS,
                               calculate_pnl(SettledAt(key).pos, mid(positions[key].market)))]_vars

\* the shared PnL formula: the position's tokens at entry times the price move
SharedPnl(pos, price) ==
    IF pos.entry_price_usd = 0 THEN 0
    ELSE TDiv((IF pos.is_long THEN price - pos.entry_price_usd
               ELSE pos.entry_price_usd - price)
                 * MulDiv(pos.size_usd, USD_SCALE, pos.entry_price_usd), USD_SCALE)
\* collateral_usd + pnl(price) <= collateral_usd * liq_bps / 10_000
ValueWithinThreshold(pos, price, liq_bps) ==
    pos.collateral_usd + SharedPnl(pos, price) <= (pos.collateral_usd * liq_bps) \div BPS

\* C20: a position with size is liquidatable at the current price exactly when
\* collateral_usd + pnl <= collateral_usd * liq_bps / 10_000, and a position
\* with size_usd 0 is never liquidatable; can_liquidate answers accordingly.
LiquidatableIffValueWithinThreshold ==
    (res.op = "can_liquidate" /\ res.err = "Ok")
    => (res.typ = "true")
          = (/\ positions[res.pk].size_usd > 0
             /\ ValueWithinThreshold(positions[res.pk], mid(MarketId),
                                     market_configs[MarketId].liquidation_threshold_bps))

\* the other side's claimable-fee bucket
OppositeBucket(pos, pool) ==
    IF pos.is_long THEN pool.claimable_fee_usd_short ELSE pool.claimable_fee_usd_long
\* a position that is owed funding: what left its side's bucket (the borrowing
\* fee enters the same bucket) is at most what the bucket held and is what
\* the collateral gained before the borrowing fee
OwedFundingBooked(pos, pool, s) ==
    /\ OwnBucket(pos, pool) + s.borrowing_fee - OwnBucket(pos, s.pool) <= OwnBucket(pos, pool)
    /\ s.err = "Ok"
        => s.pos.collateral_usd + s.borrowing_fee - pos.collateral_usd
              = OwnBucket(pos, pool) + s.borrowing_fee - OwnBucket(pos, s.pool)
\* a position that owes funding: what the collateral gave up covers what
\* entered the other side's bucket, and is that plus the borrowing fee when
\* the settlement succeeds
OwingFundingBooked(pos, pool, s) ==
    /\ OppositeBucket(pos, s.pool) - OppositeBucket(pos, pool)
          <= pos.collateral_usd - s.pos.collateral_usd
    /\ s.err = "Ok"
        => pos.collateral_usd - s.pos.collateral_usd
              = OppositeBucket(pos, s.pool) - OppositeBucket(pos, pool) + s.borrowing_fee
FundingBooked(pos, pool, s) ==
    /\ FundingFee(pos, pool) < 0 => OwedFundingBooked(pos, pool, s)
    /\ FundingFee(pos, pool) > 0 => OwingFundingBooked(pos, pool, s)

\* C21: funding settlement manufactures no USD: for a position that is owed
\* funding the amount added to its collateral equals the amount removed from
\* its own side's bucket and is at most the bucket's balance before the call;
\* for a position that owes funding the amount added to the opposite side's
\* bucket equals the amount taken from the position's collateral.
FundingSettlementConserves ==
    \A key \in PositionKeys :
        Has(positions, key)
        => FundingBooked(positions[key], pool_amounts[positions[key].market], SettledAt(key))

\* the last call was a quote that returned a value
Quoted == res.op \in {"quote_increase", "quote_decrease"} /\ res.err = "Ok"

\* C22: whenever the price-impact computation returns a value, its magnitude
\* is at most a tenth of size_usd, for every pool, config, side, direction and
\* size.
PriceImpactCapped ==
    Quoted => Abs(res.price_impact_usd) <= res.size_usd \div 10

\* a quote whose impact is a cost of exactly the cap
ImpactAtTheCap ==
    Quoted /\ res.size_usd > 0 /\ res.price_impact_usd = -(res.size_usd \div 10)

\* the quoted market and trade, k times as large
ScaledImpact(k) ==
    calculate_price_impact_usd(
        [pool_amounts[MarketId] EXCEPT !.long_oi_usd = k * @, !.short_oi_usd = k * @],
        market_configs[MarketId], res.is_long, k * res.size_usd, res.is_increase,
        res.overflow_checks)
\* the quoted market and trade can be scaled by k within MaxScaledTotal
Scalable(k) ==
    pool_amounts[MarketId].long_oi_usd + pool_amounts[MarketId].short_oi_usd + res.size_usd
        <= MaxScaledTotal \div k

\* C23: price impact is scale-invariant: with long_oi_usd, short_oi_usd and
\* size_usd multiplied by the same factor k the price impact is k times the
\* original one, up to the rounding of the integer divisions (less than k).
PriceImpactScales ==
    Quoted
    => \A k \in ScaleFactors :
          (Scalable(k) /\ ScaledImpact(k).err = "Ok")
          => Abs(ScaledImpact(k).value - k * res.price_impact_usd) < k

\* the imbalance of the quoted market before the trade, and after it
ImbalanceBefore ==
    ImbalanceBps(pool_amounts[MarketId].long_oi_usd, pool_amounts[MarketId].short_oi_usd)
OiAfterQuote(is_long) ==
    IF res.is_long # is_long THEN SideOi(pool_amounts[MarketId], is_long)
    ELSE IF res.is_increase THEN SideOi(pool_amounts[MarketId], is_long) + res.size_usd
    ELSE SideOi(pool_amounts[MarketId], is_long) - res.size_usd
ImbalanceAfter == ImbalanceBps(OiAfterQuote(TRUE), OiAfterQuote(FALSE))
\* the quote reached the comparison of the two imbalances
ImbalanceCompared ==
    /\ Quoted
    /\ pool_amounts[MarketId].long_oi_usd + pool_amounts[MarketId].short_oi_usd > 0
    /\ OiAfterQuote(TRUE) + OiAfterQuote(FALSE) > 0
\* the quoted impact as computed with factor on either branch
ImpactWith(factor) ==
    calculate_price_impact_usd(
        pool_amounts[MarketId],
        [market_configs[MarketId] EXCEPT !.pi_factor_positive = factor,
                                         !.pi_factor_negative = factor],
        res.is_long, res.size_usd, res.is_increase, res.overflow_checks).value

\* C24: a trade that lowers the normalized imbalance (d_after < d_before) has a
\* price impact >= 0 computed with pi_factor_positive, and one that raises it
\* has a price impact <= 0 computed with pi_factor_negative.
ImpactSignFollowsBalance ==
    ImbalanceCompared
    => /\ ImbalanceAfter < ImbalanceBefore
          => /\ res.price_impact_usd >= 0
             /\ res.price_impact_usd = ImpactWith(market_configs[MarketId].pi_factor_positive)
       /\ ImbalanceAfter > ImbalanceBefore
          => /\ res.price_impact_usd <= 0
             /\ res.price_impact_usd = ImpactWith(market_configs[MarketId].pi_factor_negative)

\* the quoted market has no open interest on either side
EmptyMarket ==
    pool_amounts[MarketId].long_oi_usd = 0 /\ pool_amounts[MarketId].short_oi_usd = 0

\* C25: the price impact of an increase on a market whose long_oi_usd and
\* short_oi_usd are both 0 is exactly 0, for every size, side and config.
FirstTradeHasNoImpact ==
    (res.op = "quote_increase" /\ EmptyMarket)
    => (res.err = "Ok" /\ res.price_impact_usd = 0)

\* an increase of the largest size quoted on an empty market under exponent 8
FirstTradeQuoted ==
    /\ res.op = "quote_increase" /\ EmptyMarket /\ res.err = "Ok"
    /\ res.size_usd = 200000000 /\ market_configs[MarketId].pi_exponent = 8

\* C26: a decrease quote whose size_usd is larger than the open interest of
\* the trader's side fails with InsufficientOpenInterest, for every pool state
\* and every such size.
OversizedDecreaseFails ==
    (res.op = "quote_decrease" /\ res.size_usd > SideOi(pool_amounts[MarketId], res.is_long))
    => res.err = "InsufficientOpenInterest"

\* the oracle mid the quote was priced at
QuoteMid == mid(price_key(MarketId))

\* C27: the execution price returned by quote lies in
\* [mid - mid/10, mid + mid/10] of the oracle mid, whatever the spread, the
\* price impact and the side and direction.
ExecutionPriceNearMid ==
    Quoted
    => /\ res.execution_price >= QuoteMid - QuoteMid \div 10
       /\ res.execution_price <= QuoteMid + QuoteMid \div 10

\* a buy quoted at the upper bound while the ask alone is beyond it
QuoteClampedAtUpperBound ==
    /\ Quoted /\ res.is_long = res.is_increase
    /\ res.execution_price = QuoteMid + QuoteMid \div 10
    /\ QuoteMid + spread(price_key(MarketId)) \div 2 > QuoteMid + QuoteMid \div 10

\* the request misses a rule the order must meet: an existing market with a
\* config, a size, an acceptable price, a trigger price for limit and stop
\* orders, collateral for increases
MissesOrderRule(params) ==
    \/ ~Has(markets, params.market) \/ ~Has(market_configs, params.market)
    \/ params.size_delta_usd = 0
    \/ params.acceptable_price = 0
    \/ params.order_type \in LimitTypes /\ params.trigger_price = 0
    \/ params.order_type \in IncreaseTypes /\ params.collateral_delta_amount = 0

\* C28: create_order rejects, without saving an order or changing any state, a
\* request whose market does not exist or has no config (MarketNotFound), whose
\* size is 0, whose acceptable price is 0, whose trigger price is 0 for a limit
\* or stop order, or whose collateral is 0 for an increase; a market order is
\* not rejected for having trigger_price 0.
OrderValidationRejects ==
    [][\A params \in ValidationOrderInputs :
          (res'.op = "create_order" /\ CreateOrder("alice", params))
          => /\ MissesOrderRule(params)
                => /\ res'.err # "Ok"
                   /\ UNCHANGED ledger
                   /\ ~Has(markets, params.market) => res'.err = "MarketNotFound"
             /\ (params.order_type \in {"MarketIncrease", "MarketDecrease"}
                 /\ params.trigger_price = 0 /\ ~MissesOrderRule(params))
                => res'.err # "InvalidPrice"]_vars

\* ------------------------------------------------------------------------
\* Market administration
\* ------------------------------------------------------------------------
MarketRecordKept ==
    Has(markets, MarketId) => Has(markets', MarketId) /\ markets'[MarketId] = markets[MarketId]

\* C29: create_market and set_market_config succeed only for the admin and change
\* nothing for anyone else (Unauthorized); create_market on an existing id fails with
\* MarketAlreadyExists and leaves the Market record, the pool and the share ledger as
\* they were; set_market_config on an unknown id fails with MarketNotFound; a Market
\* record never changes once created.
MarketAdministration ==
    [][/\ MarketRecordKept
       /\ \A c \in AdminCallers, cfg \in Configs :
             /\ \A m \in MarketInputs :
                   (res'.op = "create_market" /\ create_market(c, m, cfg))
                   => /\ c # Admin => res'.err = "Unauthorized" /\ UNCHANGED ledger
                      /\ res'.err = "Ok" => c = Admin
                      /\ (c = Admin /\ Has(markets, MarketId))
                         => /\ res'.err = "MarketAlreadyExists"
                            /\ UNCHANGED <<markets, market_configs, pool_amounts, market_tokens>>
             /\ (res'.op = "set_market_config" /\ SetMarketConfig(c, cfg))
                => /\ c # Admin => res'.err = "Unauthorized" /\ UNCHANGED ledger
                   /\ res'.err = "Ok" => c = Admin /\ market_configs'[MarketId] = cfg
                   /\ (c = Admin /\ ~Has(markets, MarketId))
                      => res'.err = "MarketNotFound" /\ UNCHANGED ledger]_vars

\* a second create_market by the admin is refused on a market that holds liquidity
\* and shares
FundedMarketCreatedTwice ==
    /\ res.op = "create_market"
    /\ res.err = "MarketAlreadyExists"
    /\ Has(pool_amounts, MarketId) /\ pool_amounts[MarketId].liquidity_usd > 0
    /\ Has(market_tokens, MarketId) /\ market_tokens[MarketId].total_supply > 0

\* ------------------------------------------------------------------------
\* Fee settlement of an operation that fails
\* ------------------------------------------------------------------------
FeeBuckets(pa) ==
    IF Has(pa, MarketId)
    THEN <<pa[MarketId].claimable_fee_usd_long, pa[MarketId].claimable_fee_usd_short,
           pa[MarketId].total_borrowing_fees_usd>>
    ELSE <<0, 0, 0>>

FeeCheckpoint(pos) == <<pos.collateral_usd, pos.funding_fee_per_usd, pos.last_fee_update>>

StoredCheckpointsKept ==
    \A k \in DOMAIN positions :
        k \in DOMAIN positions' /\ FeeCheckpoint(positions'[k]) = FeeCheckpoint(positions[k])

\* C30: when an operation that settles the fees of a position fails, in the
\* settlement itself (InsufficientCollateral) or at a later check, the pool's two
\* claimable-fee buckets and total_borrowing_fees_usd are what they were before the
\* operation, and the stored position keeps its collateral, its funding checkpoint
\* and its last_fee_update.
FailedSettlementCommitsNothing ==
    [][\A params \in FundingOrderInputs :
          (res'.op = "create_order" /\ res'.err # "Ok" /\ CreateOrder("alice", params))
          => /\ FeeBuckets(pool_amounts') = FeeBuckets(pool_amounts)
             /\ StoredCheckpointsKept]_vars

\* ------------------------------------------------------------------------
\* The exposed liquidation: who may call it, and when
\* ------------------------------------------------------------------------
MayLiquidate(l) == l \in keepers \/ l \in liquidators

LiquidatableAtMid(key) ==
    /\ Has(positions, key)
    /\ HasPrice(positions[key].market)
    /\ Has(market_configs, positions[key].market)
    /\ is_liquidatable(positions[key], mid(positions[key].market),
                       market_configs[positions[key].market].liquidation_threshold_bps)

Judgeable(key) ==
    /\ Has(positions, key)
    /\ HasPrice(positions[key].market)
    /\ Has(market_configs, positions[key].market)

\* C31: the exposed liquidate_position returns Ok only for a keeper or liquidator
\* and a position that is liquidatable at the current mid; any other caller gets
\* NotLiquidator, an entitled caller of a position that is not liquidatable gets
\* PositionNotLiquidatable, and both refusals leave positions, pools and balances
\* as they were.
ExposedLiquidationGuarded ==
    [][\A l \in Callers, key \in LongKeys :
          (res'.op = "liquidate_position" /\ LiquidatePosition(l, key))
          => /\ ~MayLiquidate(l) => res'.err = "NotLiquidator"
             /\ res'.err = "Ok" => MayLiquidate(l) /\ LiquidatableAtMid(key)
             /\ (MayLiquidate(l) /\ Judgeable(key) /\ ~LiquidatableAtMid(key))
                => res'.err = "PositionNotLiquidatable"
             /\ res'.err \in {"NotLiquidator", "PositionNotLiquidatable"}
                => UNCHANGED ledger]_vars

\* a keeper was refused on a stored position that is not liquidatable
KeeperRefusedOnHealthyPosition ==
    /\ res.op = "liquidate_position"
    /\ res.err = "PositionNotLiquidatable"
    /\ MayLiquidate(res.who)
    /\ Has(positions, res.pk)

\* ------------------------------------------------------------------------
\* Order status
\* ------------------------------------------------------------------------
StatusOf(os, key) == IF Has(os, key) THEN os[key].status ELSE "None"

StatusMove(key) ==
    \/ StatusOf(orders', key) = StatusOf(orders, key)
    \/ /\ StatusOf(orders, key) = "None" /\ StatusOf(orders', key) = "Created"
       /\ res'.op = "create_order" /\ res'.err = "Ok"
    \/ /\ StatusOf(orders', key) = "Executed"
       /\ res'.op = "execute_saved_order" /\ res'.err = "Ok" /\ res'.ok = key
    \/ /\ StatusOf(orders', key) = "Cancelled"
       /\ res'.op = "cancel_order" /\ res'.err = "Ok" /\ res'.ok = key

\* C32: every stored order has status Created, Executed or Cancelled, never
\* Frozen; an order becomes Executed only in a successful execute_saved_order of
\* that order and Cancelled only in a successful cancel_order of that order.
OrderStatusNeverFrozen ==
    /\ \A key \in DOMAIN orders : orders[key].status \in {"Created", "Executed", "Cancelled"}
    /\ [][\A key \in (DOMAIN orders') \cup (DOMAIN orders) :
              /\ StatusOf(orders', key) \in {"Created", "Executed", "Cancelled"}
              /\ StatusMove(key)]_vars

\* an executed order was offered for execution again, the call failed, and the
\* order is still Executed
ExecutedOrderOfferedAgain ==
    /\ res.op = "execute_saved_order"
    /\ res.err = "OrderAlreadyProcessed"
    /\ Has(orders, res.ok)
    /\ orders[res.ok].status = "Executed"

\* ------------------------------------------------------------------------
\* Open interest against the stored positions
\* ------------------------------------------------------------------------
RECURSIVE SizeOver(_, _)
SizeOver(keys, is_long) ==
    IF keys = {} THEN 0
    ELSE LET key == CHOOSE k \in keys : TRUE
         IN (IF positions[key].is_long = is_long /\ positions[key].market = MarketId
             THEN positions[key].size_usd ELSE 0)
            + SizeOver(keys \ {key}, is_long)

StoredSize(is_long) == SizeOver(DOMAIN positions, is_long)

\* C33: in every state the pool's long_oi_usd is the sum of size_usd over the
\* stored long positions of the market and short_oi_usd the sum over its stored
\* short positions, whatever increase, decrease and liquidation calls succeeded
\* or failed before.
OpenInterestMatchesPositions ==
    Has(pool_amounts, MarketId)
    => /\ pool_amounts[MarketId].long_oi_usd = StoredSize(TRUE)
       /\ pool_amounts[MarketId].short_oi_usd = StoredSize(FALSE)

\* ------------------------------------------------------------------------
\* Share supply against the share balances
\* ------------------------------------------------------------------------
RECURSIVE ShareSum(_, _)
ShareSum(bal, holders) ==
    IF holders = {} THEN 0
    ELSE LET lp == CHOOSE h \in holders : TRUE
         IN bal[lp] + ShareSum(bal, holders \ {lp})

SharesHeld(mt) == ShareSum(mt.balances, DOMAIN mt.balances)

\* C34: in every state the market's total_supply is the sum of the share
\* balances of all liquidity providers: add_liquidity and remove_liquidity move
\* a provider's balance by exactly what they move total_supply by.
ShareSupplyMatchesBalances ==
    Has(market_tokens, MarketId)
    => market_tokens[MarketId].total_supply = SharesHeld(market_tokens[MarketId])

\* ------------------------------------------------------------------------
\* Collateral of a position that is closed
\* ------------------------------------------------------------------------
RECURSIVE CollateralOver(_, _)
CollateralOver(ps, keys) ==
    IF keys = {} THEN 0
    ELSE LET key == CHOOSE k \in keys : TRUE
         IN ps[key].collateral_usd + CollateralOver(ps, keys \ {key})

\* balances, pool liquidity, fee buckets and the collateral of stored positions
LedgerTotal(bal, pa, ps) == BalanceSum(bal) + PoolValue(pa) + CollateralOver(ps, DOMAIN ps)

ClosedBy(op) ==
    /\ res'.op = op
    /\ res'.err = "Ok"
    /\ res'.typ \in DecreaseTypes
    /\ Has(positions, res'.pk)
    /\ ~Has(positions', res'.pk)

\* C35: a decrease that brings size_usd to 0 and deletes the position drops no
\* collateral: balances + pool liquidity + fee buckets + collateral of the stored
\* positions is, up to one unit of rounding, what it was before the call.
ClosingKeepsCollateral ==
    [][ClosedBy("create_order")
       => Abs(LedgerTotal(balances', pool_amounts', positions')
              - LedgerTotal(balances, pool_amounts, positions)) <= 1]_vars

\* C36: a liquidation by a keeper or liquidator of a position that is liquidatable
\* at the current mid succeeds and removes the position; fee settlement never
\* blocks it.
LiquidatableIsClosed ==
    [][\A l \in Callers, key \in LongKeys :
          (/\ res'.op = "liquidate_position"
           /\ MayLiquidate(l)
           /\ LiquidatableAtMid(key)
           /\ LiquidatePosition(l, key))
          => res'.err = "Ok" /\ ~Has(positions', key)]_vars

\* ------------------------------------------------------------------------
\* Stored orders against the creation-time validation
\* ------------------------------------------------------------------------
\* C37: every order in status Created has size_delta_usd > 0,
\* acceptable_price > 0 and trigger_price > 0, after any update_order too.
CreatedOrdersStayValid ==
    \A key \in DOMAIN orders :
        orders[key].status = "Created"
        => /\ orders[key].size_delta_usd > 0
           /\ orders[key].acceptable_price > 0
           /\ orders[key].trigger_price > 0

\* ------------------------------------------------------------------------
\* Who may change an order, and whose account an execution moves
\* ------------------------------------------------------------------------
OwnerKey(order) == position_key(order.account, order.is_long)

\* positions of accounts other than the order's owner are what they were
OthersPositionsKept(order) ==
    \A k \in (DOMAIN positions) \cup (DOMAIN positions') :
        k[1] # order.account
        => k \in DOMAIN positions /\ k \in DOMAIN positions' /\ positions'[k] = positions[k]

ExecutionBooksOwner(order) ==
    /\ res'.pk = OwnerKey(order)
    /\ \A a \in Actors : a # order.account => balances'[a] = balances[a]
    /\ OthersPositionsKept(order)
    /\ (res'.err = "Ok" /\ order.order_type \in IncreaseTypes)
       => /\ Has(positions', OwnerKey(order))
          /\ balances'[order.account] = balances[order.account] - order.collateral_delta_amount
    /\ (res'.err = "Ok" /\ order.order_type \in DecreaseTypes)
       => /\ Has(positions, OwnerKey(order))
          /\ balances'[order.account] >= balances[order.account]

\* C38: update_order and cancel_order by an account that is not the order's
\* account fail with Unauthorized and leave the order as it is;
\* execute_saved_order by any account books the position change (collateral
\* debit, payout, position key) on the order owner's account and never on the
\* executor's.
OnlyOwnerChangesOrder ==
    [][\A key \in DOMAIN orders :
          /\ (res'.op \in {"update_order", "cancel_order"} /\ res'.ok = key
                  /\ res'.who # orders[key].account)
             => res'.err = "Unauthorized" /\ orders'[key] = orders[key]
          /\ (res'.op = "execute_saved_order" /\ res'.ok = key
                  /\ res'.who # orders[key].account)
             => ExecutionBooksOwner(orders[key])]_vars

\* an order was executed by an account that does not own it, and the position
\* stands under the owner's key
ExecutedByStranger ==
    /\ res.op = "execute_saved_order"
    /\ res.err = "Ok"
    /\ Has(orders, res.ok)
    /\ res.who # orders[res.ok].account
    /\ Has(positions, OwnerKey(orders[res.ok]))

\* ------------------------------------------------------------------------
\* The cached liquidation price against is_liquidatable
\* ------------------------------------------------------------------------
\* the cached price and the predicate agree at price p, the boundary taken
\* within one unit of the cached price
AgreesWithCache(pos, p, liq_bps) ==
    IF pos.is_long
    THEN /\ p <= pos.liquidation_price_usd - 1 => is_liquidatable(pos, p, liq_bps)
         /\ p > pos.liquidation_price_usd + 1 => ~is_liquidatable(pos, p, liq_bps)
    ELSE /\ p >= pos.liquidation_price_usd + 1 => is_liquidatable(pos, p, liq_bps)
         /\ p < pos.liquidation_price_usd - 1 => ~is_liquidatable(pos, p, liq_bps)

\* C39: for every stored position with size, left by a successful increase or
\* partial decrease, is_liquidatable(p) holds exactly when p is on the losing side
\* of the cached liquidation_price_usd (p <= it for a long, p >= it for a short),
\* up to one unit of rounding, under the market's liquidation threshold.
CachedLiquidationPriceAgrees ==
    \A key \in DOMAIN positions :
        (positions[key].size_usd > 0 /\ Has(market_configs, positions[key].market))
        => \A p \in DustPrices :
              AgreesWithCache(positions[key], p,
                              market_configs[positions[key].market].liquidation_threshold_bps)

\* C40: no exposed operation takes a borrow of the global ledger while a
\* conflicting borrow taken earlier in the same call is still held: no
\* create_order, execute_saved_order, liquidate_position or remove_liquidity
\* message ends in a re-entrant-borrow panic
NoReentrantBorrowPanic ==
    res.op \in {"create_order", "execute_saved_order", "liquidate_position",
                "remove_liquidity"}
        => res.err # "BorrowPanic"

====
